---- MODULE Spec2Model ----
(***************************************************************************)
(* Model of the trend dashboard: the keyword classifier, the heat-rise     *)
(* estimator, the trend source chain (services/gemini.ts) and the          *)
(* per-title analysis cache of the analysis modal.                         *)
(*                                                                         *)
(* TLA+ strings are ASCII only.  A Chinese character of the source is      *)
(* written as the token "uXXXX" of its code point and a text as the        *)
(* sequence of its characters' tokens.  The category names are defined     *)
(* under their pinyin:                                                     *)
(*   YuLeJingXuan 娱乐精选, SheHuiMinSheng 社会民生, KeJiShuMa 科技数码,   *)
(*   ShiShangShengHuo 时尚生活, QingGanRiChang 情感日常,                   *)
(*   XingQuChuiLei 兴趣垂类.                                               *)
(***************************************************************************)
EXTENDS Integers, Sequences, FiniteSets, TLC

VARIABLES
    \* ---- classifier harness (determineCategory) ----
    title,          \* the title under classification
    category,       \* result of the latest determineCategory(title), or NoCategory
    firstCategory,  \* result of the first determineCategory(title), or NoCategory
    lastCategory,   \* result of the latest determineCategory call on any title
    clsStage,       \* 0 no call yet; 1 title classified; 2 then another title
                    \* classified; 3 then title classified again
    \* ---- estimator harness (calculateHeatRise) ----
    totalHotValue,  \* the argument of calculateHeatRise
    random,         \* the Math.random() draw, in units of 1/RandomDen, or -1
    heatRise,       \* the value returned, or -1 before the call
    \* ---- browser storage ----
    localStorage,   \* key |-> stored string, for the keys present
    \* ---- one fetchTrends invocation ----
    ftPc,           \* where the invocation stands
    ftCalls,        \* the external calls issued so far, in order
    ftInFlight,     \* the external calls issued and not yet settled
    ftFailed,       \* the tiers that have failed
    ftResponse,     \* the latest response that arrived
    ftResult,       \* the value the returned promise resolved with
    ftPath,         \* the tier whose list was returned
    \* ---- the analysis modal and its cache ----
    selectedTrend,  \* title of the trend whose modal is mounted, or NoTrend
    mdMount,        \* the number of modals mounted so far
    analysis,       \* state of the mounted modal: the analysis shown, or null
    loading,        \* state of the mounted modal
    error,          \* state of the mounted modal: null or an error code
    mdCalls,        \* the analyzeTrendWithAI calls in flight: [mount, title]
    mdCacheHit,     \* the mounted modal took its analysis from the cache
    lastPut,        \* title |-> the latest analysis written to its cache
                    \* entry and not overwritten from outside, or NoPut
    \* ---- analysis harness (the three analysis operations) ----
    azResponse,     \* the response the completion service gives
    azItem,         \* outcome of analyzeTrendWithAI, or NoOutcome
    azGlobal,       \* outcome of analyzeGlobalTrends, or NoOutcome
    azEvents,       \* outcome of identifyBigEvents, or NoOutcome
    \* ---- the aggregate analysis of App ----
    trendsLength,   \* trends.length
    hasKey,         \* App state
    showSettings,   \* App state: the settings dialog is open
    showKeyUpdatePrompt, \* App state: the analyze-now prompt is open
    analyzingGlobal,     \* App state
    globalAnalysis, \* App state: the aggregate analysis shown, or null
    bigEvents,      \* App state: the events shown
    tokenUsage,     \* App state
    analysisProgress,    \* App state, in halves of a percent
    intervalActive, \* the progress interval of progressInterval.current runs
    alerts,         \* the number of failure notices shown by alert, line 169
    agRuns,         \* the aggregate runs started, in order: the outcomes of
                    \* the two calls and the state of their join
    refreshing,     \* App state
    loadingTrends,  \* App state loading
    trendsFrom,     \* App state trends: the fetchTrends call whose list is
                    \* shown, 0 for the empty list of the first render
    rfCalls         \* the fetchTrends calls of loadTrends, in order: who made
                    \* the call and whether it has settled

clsVars == <<title, category, firstCategory, lastCategory, clsStage>>
estVars == <<totalHotValue, random, heatRise>>
ftVars == <<ftPc, ftCalls, ftInFlight, ftFailed, ftResponse, ftResult, ftPath>>
mdVars == <<selectedTrend, mdMount, analysis, loading, error, mdCalls, mdCacheHit, lastPut>>
azVars == <<azResponse, azItem, azGlobal, azEvents>>
agVars == <<trendsLength, hasKey, showSettings, showKeyUpdatePrompt, analyzingGlobal,
           globalAnalysis, bigEvents, tokenUsage, analysisProgress, intervalActive,
           alerts, agRuns>>
rfVars == <<refreshing, loadingTrends, trendsFrom, rfCalls>>
vars == <<clsVars, estVars, localStorage, ftVars, mdVars, azVars, agVars, rfVars>>

-----------------------------------------------------------------------------
(* Bounds *)

\* A title is the concatenation of at most MaxTitleParts fragments.
MaxTitleParts == 2
\* Math.random() is drawn from {0, 1/RandomDen, ..., (RandomDen-1)/RandomDen}.
RandomDen == 8
\* Hot values 0..MaxSmallHotValue are all tried, besides a few large ones.
MaxSmallHotValue == 120
\* Every list of at most MaxShortLen entries of the pools is tried.
MaxShortLen == 2
\* Long lists have SliceLimit - 1 to SliceLimit + MaxExtra entries.
MaxExtra == 1

-----------------------------------------------------------------------------
(* types.ts *)

\* The category names, as texts.
SheHuiMinSheng == <<"u793e", "u4f1a", "u6c11", "u751f">>    \* 社会民生
YuLeJingXuan == <<"u5a31", "u4e50", "u7cbe", "u9009">>    \* 娱乐精选
KeJiShuMa == <<"u79d1", "u6280", "u6570", "u7801">>    \* 科技数码
ShiShangShengHuo == <<"u65f6", "u5c1a", "u751f", "u6d3b">>    \* 时尚生活
QingGanRiChang == <<"u60c5", "u611f", "u65e5", "u5e38">>    \* 情感日常
XingQuChuiLei == <<"u5174", "u8da3", "u5782", "u7c7b">>    \* 兴趣垂类

\* CATEGORIES, types.ts line 57
CATEGORIES == <<SheHuiMinSheng, YuLeJingXuan, KeJiShuMa,
                ShiShangShengHuo, QingGanRiChang, XingQuChuiLei>>

CategorySet == {CATEGORIES[i] : i \in 1..Len(CATEGORIES)}

NoCategory == <<"NoCategory">>

-----------------------------------------------------------------------------
(* JavaScript values.  A value is a record tagged by t; a string holds the *)
(* sequence of its tokens, an object its keys in insertion order.          *)

Undefined == [t |-> "undefined"]
JNull == [t |-> "null"]
NaN == [t |-> "NaN"]
JNum(n) == [t |-> "num", n |-> n]
JStr(s) == [t |-> "str", s |-> s]
JArr(a) == [t |-> "arr", a |-> a]
JObj(k, v) == [t |-> "obj", k |-> k, v |-> v]

\* A thrown error with its message, and a normal completion with its value.
Throw(msg) == [ok |-> FALSE, msg |-> msg]
Return(val) == [ok |-> TRUE, val |-> val]

\* Messages of the errors the runtime throws.
TypeError == <<"TypeError">>
SyntaxError == <<"SyntaxError">>
NetworkError == <<"Failed to fetch">>

\* ToBoolean(x)
Truthy(x) ==
    CASE x.t \in {"undefined", "null", "NaN"} -> FALSE
      [] x.t = "num" -> x.n # 0
      [] x.t = "str" -> x.s # <<>>
      [] OTHER -> TRUE

\* Reading a property of x throws a TypeError.
Nullish(x) == x.t \in {"undefined", "null"}

HasKey(x, key) == x.t = "obj" /\ \E i \in 1..Len(x.k) : x.k[i] = key

\* x.key for x neither null nor undefined
Get(x, key) ==
    IF HasKey(x, key)
    THEN x.v[CHOOSE i \in 1..Len(x.k) : x.k[i] = key]
    ELSE Undefined

\* x[0] for x neither null nor undefined
First(x) == IF x.t = "arr" /\ x.a # <<>> THEN x.a[1] ELSE Undefined

\* { ...obj, key: val }: an own key keeps its place, a new key goes last.
Put(obj, key, val) ==
    IF HasKey(obj, key)
    THEN JObj(obj.k, [i \in 1..Len(obj.k) |-> IF obj.k[i] = key THEN val ELSE obj.v[i]])
    ELSE JObj(Append(obj.k, key), Append(obj.v, val))

-----------------------------------------------------------------------------
(* JSON texts.  A text is the sequence of its lexical tokens.              *)

Tok(k) == [k |-> k]
TokStr(s) == [k |-> "str", s |-> s]
TokNum(n) == [k |-> "num", n |-> n]

RECURSIVE JSON_stringify(_)
RECURSIVE StringifyElems(_, _)
RECURSIVE StringifyMembers(_, _, _)

\* The elements of an array from index i on, separated by commas; undefined
\* and NaN are written as null.
StringifyElems(a, i) ==
    IF i > Len(a) THEN <<>>
    ELSE (IF i > 1 THEN <<Tok(",")>> ELSE <<>>)
         \o (IF a[i].t \in {"undefined", "NaN"} THEN <<Tok("null")>>
             ELSE JSON_stringify(a[i]))
         \o StringifyElems(a, i + 1)

\* The members of an object from index i on; a member whose value is
\* undefined is left out.  first: no member has been written yet.
StringifyMembers(obj, i, first) ==
    IF i > Len(obj.k) THEN <<>>
    ELSE IF obj.v[i].t = "undefined" THEN StringifyMembers(obj, i + 1, first)
    ELSE (IF first THEN <<>> ELSE <<Tok(",")>>)
         \o <<TokStr(obj.k[i]), Tok(":")>>
         \o JSON_stringify(obj.v[i])
         \o StringifyMembers(obj, i + 1, FALSE)

\* JSON.stringify(x) for x other than undefined
JSON_stringify(x) ==
    CASE x.t \in {"null", "NaN"} -> <<Tok("null")>>
      [] x.t = "num" -> <<TokNum(x.n)>>
      [] x.t = "str" -> <<TokStr(x.s)>>
      [] x.t = "arr" -> <<Tok("[")>> \o StringifyElems(x.a, 1) \o <<Tok("]")>>
      [] x.t = "obj" -> <<Tok("{")>> \o StringifyMembers(x, 1, TRUE) \o <<Tok("}")>>

\* The parser's results: a value and the index after it, or a failure.
Parsed(val, next) == [ok |-> TRUE, val |-> val, next |-> next]
ParseFail == [ok |-> FALSE]

TokAt(tx, i) == IF i <= Len(tx) THEN tx[i].k ELSE "eof"

RECURSIVE ParseValue(_, _)
RECURSIVE ParseElems(_, _, _)
RECURSIVE ParseMembers(_, _, _)

\* The elements of an array: a value at i, then "," and more, or "]".
ParseElems(tx, i, acc) ==
    LET r == ParseValue(tx, i)
    IN  IF ~r.ok THEN ParseFail
        ELSE IF TokAt(tx, r.next) = "," THEN ParseElems(tx, r.next + 1, Append(acc, r.val))
        ELSE IF TokAt(tx, r.next) = "]" THEN Parsed(JArr(Append(acc, r.val)), r.next + 1)
        ELSE ParseFail

\* The members of an object: a string at i, ":", a value, then "," and
\* more, or "}".  A repeated key takes its last value.
ParseMembers(tx, i, obj) ==
    IF TokAt(tx, i) # "str" \/ TokAt(tx, i + 1) # ":" THEN ParseFail
    ELSE LET r == ParseValue(tx, i + 2)
         IN  IF ~r.ok THEN ParseFail
             ELSE LET o == Put(obj, tx[i].s, r.val)
                  IN  IF TokAt(tx, r.next) = "," THEN ParseMembers(tx, r.next + 1, o)
                      ELSE IF TokAt(tx, r.next) = "}" THEN Parsed(o, r.next + 1)
                      ELSE ParseFail

ParseValue(tx, i) ==
    CASE TokAt(tx, i) = "null" -> Parsed(JNull, i + 1)
      [] TokAt(tx, i) = "num" -> Parsed(JNum(tx[i].n), i + 1)
      [] TokAt(tx, i) = "str" -> Parsed(JStr(tx[i].s), i + 1)
      [] TokAt(tx, i) = "[" ->
            IF TokAt(tx, i + 1) = "]" THEN Parsed(JArr(<<>>), i + 2)
            ELSE ParseElems(tx, i + 1, <<>>)
      [] TokAt(tx, i) = "{" ->
            IF TokAt(tx, i + 1) = "}" THEN Parsed(JObj(<<>>, <<>>), i + 2)
            ELSE ParseMembers(tx, i + 1, JObj(<<>>, <<>>))
      [] OTHER -> ParseFail

\* JSON.parse(text): the value, or a SyntaxError unless the whole text is
\* one value.
JSON_parse(tx) ==
    LET r == ParseValue(tx, 1)
    IN  IF r.ok /\ r.next = Len(tx) + 1 THEN Return(r.val) ELSE Throw(SyntaxError)

\* JSON.parse(x) of any value: x is converted to a string first.
JSON_parseValue(x) ==
    CASE x.t = "str" -> JSON_parse(x.s)
      [] x.t \in {"null", "num"} -> Return(x)
      [] OTHER -> Throw(SyntaxError)

-----------------------------------------------------------------------------
(* Keyword classification, gemini.ts lines 161-187 *)

\* KEYWORD_MAP in insertion order, which is the order of Object.entries.
KEYWORD_MAP == <<
    \* 娱乐精选: 剧 电影 明星 演员 综艺 演唱会 歌 舞 网红 直播 游戏 电竞 王者 原神 吃鸡 笑 梗 瓜 爆料 前任 现任
    <<YuLeJingXuan, <<
        <<"u5267">>, <<"u7535", "u5f71">>, <<"u660e", "u661f">>, <<"u6f14", "u5458">>,
        <<"u7efc", "u827a">>, <<"u6f14", "u5531", "u4f1a">>, <<"u6b4c">>, <<"u821e">>,
        <<"u7f51", "u7ea2">>, <<"u76f4", "u64ad">>, <<"u6e38", "u620f">>, <<"u7535", "u7ade">>,
        <<"u738b", "u8005">>, <<"u539f", "u795e">>, <<"u5403", "u9e21">>, <<"u7b11">>,
        <<"u6897">>, <<"u74dc">>, <<"u7206", "u6599">>, <<"u524d", "u4efb">>,
        <<"u73b0", "u4efb">> >> >>,
    \* 社会民生: 新闻 事件 回应 官方 通报 政策 经济 股市 基金 工资 招聘 工作 职场 教育 学校 考试 历史 文化 农业 农村
    <<SheHuiMinSheng, <<
        <<"u65b0", "u95fb">>, <<"u4e8b", "u4ef6">>, <<"u56de", "u5e94">>, <<"u5b98", "u65b9">>,
        <<"u901a", "u62a5">>, <<"u653f", "u7b56">>, <<"u7ecf", "u6d4e">>, <<"u80a1", "u5e02">>,
        <<"u57fa", "u91d1">>, <<"u5de5", "u8d44">>, <<"u62db", "u8058">>, <<"u5de5", "u4f5c">>,
        <<"u804c", "u573a">>, <<"u6559", "u80b2">>, <<"u5b66", "u6821">>, <<"u8003", "u8bd5">>,
        <<"u5386", "u53f2">>, <<"u6587", "u5316">>, <<"u519c", "u4e1a">>, <<"u519c", "u6751">> >> >>,
    \* 科技数码: AI 人工智能 手机 苹果 华为 小米 电脑 汽车 新能源 驾驶 航天 科学 技术 发明 未来
    <<KeJiShuMa, <<
        <<"A", "I">>, <<"u4eba", "u5de5", "u667a", "u80fd">>, <<"u624b", "u673a">>,
        <<"u82f9", "u679c">>, <<"u534e", "u4e3a">>, <<"u5c0f", "u7c73">>, <<"u7535", "u8111">>,
        <<"u6c7d", "u8f66">>, <<"u65b0", "u80fd", "u6e90">>, <<"u9a7e", "u9a76">>,
        <<"u822a", "u5929">>, <<"u79d1", "u5b66">>, <<"u6280", "u672f">>, <<"u53d1", "u660e">>,
        <<"u672a", "u6765">> >> >>,
    \* 时尚生活: 穿搭 妆 护肤 口红 包包 奢侈品 装修 家居 设计 改造 旅游 景点 打卡 拍照 摄影
    <<ShiShangShengHuo, <<
        <<"u7a7f", "u642d">>, <<"u5986">>, <<"u62a4", "u80a4">>, <<"u53e3", "u7ea2">>,
        <<"u5305", "u5305">>, <<"u5962", "u4f88", "u54c1">>, <<"u88c5", "u4fee">>,
        <<"u5bb6", "u5c45">>, <<"u8bbe", "u8ba1">>, <<"u6539", "u9020">>, <<"u65c5", "u6e38">>,
        <<"u666f", "u70b9">>, <<"u6253", "u5361">>, <<"u62cd", "u7167">>, <<"u6444", "u5f71">> >> >>,
    \* 情感日常: 猫 狗 宠 娃 宝宝 老公 老婆 男友 女友 恋爱 分手 结婚 离婚 Vlog 日常 记录 感人 泪目
    <<QingGanRiChang, <<
        <<"u732b">>, <<"u72d7">>, <<"u5ba0">>, <<"u5a03">>, <<"u5b9d", "u5b9d">>,
        <<"u8001", "u516c">>, <<"u8001", "u5a46">>, <<"u7537", "u53cb">>, <<"u5973", "u53cb">>,
        <<"u604b", "u7231">>, <<"u5206", "u624b">>, <<"u7ed3", "u5a5a">>, <<"u79bb", "u5a5a">>,
        <<"V", "l", "o", "g">>, <<"u65e5", "u5e38">>, <<"u8bb0", "u5f55">>,
        <<"u611f", "u4eba">>, <<"u6cea", "u76ee">> >> >>,
    \* 兴趣垂类: 吃 美食 菜 饭 烹饪 健身 减肥 运动 瑜伽 跑步 养生 健康 病 医
    <<XingQuChuiLei, <<
        <<"u5403">>, <<"u7f8e", "u98df">>, <<"u83dc">>, <<"u996d">>, <<"u70f9", "u996a">>,
        <<"u5065", "u8eab">>, <<"u51cf", "u80a5">>, <<"u8fd0", "u52a8">>, <<"u745c", "u4f3d">>,
        <<"u8dd1", "u6b65">>, <<"u517b", "u751f">>, <<"u5065", "u5eb7">>, <<"u75c5">>,
        <<"u533b">> >> >> >>


\* title.includes(keyword): keyword occurs as a contiguous run of title.
Includes(t, keyword) ==
    \E i \in 0..(Len(t) - Len(keyword)) :
        \A j \in 1..Len(keyword) : t[i + j] = keyword[j]

\* The inner loop: score += 1 for each keyword that title includes.
Score(t, keywords) ==
    Cardinality({k \in 1..Len(keywords) : Includes(t, keywords[k])})

\* The outer loop from entry i on, with the locals maxScore and bestCategory.
RECURSIVE CategoryLoop(_, _, _, _)
CategoryLoop(t, i, maxScore, bestCategory) ==
    IF i > Len(KEYWORD_MAP) THEN bestCategory
    ELSE LET score == Score(t, KEYWORD_MAP[i][2])
         IN  IF score > maxScore
             THEN CategoryLoop(t, i + 1, score, KEYWORD_MAP[i][1])
             ELSE CategoryLoop(t, i + 1, maxScore, bestCategory)

\* A classifier whose bestCategory survives from the previous call.
determineCategoryStale(t) ==
    CategoryLoop(t, 1, 0,
                 IF lastCategory = NoCategory THEN SheHuiMinSheng ELSE lastCategory)

\* A classifier that lets a later category take over on an equal score.
RECURSIVE CategoryLoopGeq(_, _, _, _)
CategoryLoopGeq(t, i, maxScore, bestCategory) ==
    IF i > Len(KEYWORD_MAP) THEN bestCategory
    ELSE LET score == Score(t, KEYWORD_MAP[i][2])
         IN  IF score >= maxScore /\ score > 0
             THEN CategoryLoopGeq(t, i + 1, score, KEYWORD_MAP[i][1])
             ELSE CategoryLoopGeq(t, i + 1, maxScore, bestCategory)

determineCategoryLastTie(t) == CategoryLoopGeq(t, 1, 0, SheHuiMinSheng)

determineCategory(t) == CategoryLoop(t, 1, 0, SheHuiMinSheng)

-----------------------------------------------------------------------------
(* Heat-rise estimate, gemini.ts lines 154-157 *)

\* percentage = Math.random() * 0.07 + 0.01, as the numerator of a fraction
\* with denominator 100 * RandomDen.
Percentage(r) == 7 * r + RandomDen

PercentageDen == 100 * RandomDen

\* An estimator whose percentage ranges over [0.01, 0.09).
calculateHeatRiseWide(hot, r) == (hot * (8 * r + RandomDen)) \div PercentageDen

\* Math.floor(totalHotValue * percentage); r is the Math.random() draw.
calculateHeatRise(hot, r) == (hot * Percentage(r)) \div PercentageDen

-----------------------------------------------------------------------------
(* Local storage and the credential, gemini.ts lines 5-13 *)

\* localStorage.getItem(key): the stored string, or null
getItem(storage, key) ==
    IF key \in DOMAIN storage THEN JStr(storage[key]) ELSE JNull

\* A setItem that leaves an existing entry as it is.
setItemKeepFirst(storage, key, text) ==
    [k \in DOMAIN storage \cup {key} |->
        IF k \in DOMAIN storage THEN storage[k] ELSE text]

\* localStorage.setItem(key, text)
setItem(storage, key, text) ==
    [k \in DOMAIN storage \cup {key} |-> IF k = key THEN text ELSE storage[k]]

\* localStorage.removeItem(key)
removeItem(storage, key) == [k \in DOMAIN storage \ {key} |-> storage[k]]

API_KEY_STORAGE_KEY == <<"deepseek_api_key">>

getApiKey(storage) == getItem(storage, API_KEY_STORAGE_KEY)

-----------------------------------------------------------------------------
(* The completion client, gemini.ts lines 16-49 *)

MISSING_API_KEY == <<"MISSING_API_KEY">>

ApiErrorStatus == <<"DeepSeek API Error: ", "statusText">>

\* An HTTP exchange as the caller sees it: the fetch rejects (net "error"),
\* or yields a response with its ok flag and its body, which is JSON
\* (json, data) or not.
NetworkFailure == [net |-> "error", ok |-> FALSE, json |-> FALSE, data |-> Undefined]
HttpResponse(ok, data) == [net |-> "ok", ok |-> ok, json |-> TRUE, data |-> data]
HttpNotJson(ok) == [net |-> "ok", ok |-> ok, json |-> FALSE, data |-> Undefined]
NoResponse == [net |-> "none", ok |-> FALSE, json |-> FALSE, data |-> Undefined]

\* callDeepSeek up to its fetch: throws when no credential is stored.
callDeepSeekStart(storage) ==
    IF ~Truthy(getApiKey(storage)) THEN Throw(MISSING_API_KEY) ELSE Return(Undefined)

\* errorData.error?.message || `DeepSeek API Error: ${response.statusText}`
ApiErrorMessage(errorData) ==
    LET err == Get(errorData, "error")
        message == IF Nullish(err) THEN Undefined ELSE Get(err, "message")
    IN  IF Truthy(message) /\ message.t = "str" THEN message.s ELSE ApiErrorStatus

\* callDeepSeek from the response on, lines 39-48.
callDeepSeekResume(resp) ==
    IF resp.net = "error" THEN Throw(NetworkError)
    ELSE IF ~resp.ok THEN
        LET errorData == IF resp.json THEN resp.data ELSE JObj(<<>>, <<>>)
        IN  IF Nullish(errorData) THEN Throw(TypeError)
            ELSE Throw(ApiErrorMessage(errorData))
    ELSE IF ~resp.json THEN Throw(SyntaxError)
    ELSE IF Nullish(resp.data) THEN Throw(TypeError)
    ELSE LET choices == Get(resp.data, "choices")
         IN  IF Nullish(choices) THEN Throw(TypeError)
             ELSE IF Nullish(First(choices)) THEN Throw(TypeError)
             ELSE LET message == Get(First(choices), "message")
                  IN  IF Nullish(message) THEN Throw(TypeError)
                      ELSE Return([content |-> Get(message, "content"),
                                   usage |-> Get(resp.data, "usage")])

-----------------------------------------------------------------------------
(* The trend source chain, gemini.ts lines 191-273 *)

\* The limit of slice(0, 51), line 247
SliceLimit == 51

Min(a, b) == IF a < b THEN a ELSE b

\* The draw of the i-th Math.random() call of a run seeded with seed.
Draw(seed, i) == (seed + i - 1) % RandomDen

\* calculateHeatRise(x) of any value: the product is NaN unless x is a
\* number or null, which counts as 0.
calculateHeatRiseOf(x, r) ==
    CASE x.t = "num" -> JNum(calculateHeatRise(x.n, r))
      [] x.t = "null" -> JNum(0)
      [] OTHER -> NaN

\* determineCategory(x) of any value: x.includes exists on strings only.
determineCategoryOf(x) ==
    IF x.t = "str" THEN Return(JStr(determineCategory(x.s))) ELSE Throw(TypeError)

\* A test that lets the position 0 pass.
NonNegativePosition(position) == position.t = "num" /\ position.n >= 0

\* item.position && item.position > 0
PositivePosition(position) == position.t = "num" /\ position.n > 0

TrendItemKeys == <<"rank", "title", "hotValue", "category", "heatRise", "description">>

\* The callback of list.map, lines 234-246; r is the Math.random() draw.
NormalizeItem(item, index, r) ==
    IF Nullish(item) THEN Throw(TypeError)
    ELSE LET hot == Get(item, "hot_value")
             hotValue == IF Truthy(hot) THEN hot ELSE JNum(0)
             position == Get(item, "position")
             rank == IF PositivePosition(position) THEN position ELSE JNum(index + 1)
             word == Get(item, "word")
             cat == determineCategoryOf(word)
         IN  IF ~cat.ok THEN cat
             ELSE Return(JObj(TrendItemKeys,
                              <<rank, word, hotValue, cat.val,
                                calculateHeatRiseOf(hotValue, r), JStr(<<>>)>>))

\* A slice that stops one item short.
TruncateShort(a) == SubSeq(a, 1, Min(Len(a), SliceLimit - 1))

\* .slice(0, 51)
Truncate(a) == SubSeq(a, 1, Min(Len(a), SliceLimit))

\* parseDouyinData(list), lines 233-248: every item is mapped, then the
\* result is cut.
parseDouyinData(list, seed) ==
    IF list.t # "arr" THEN Throw(TypeError)
    ELSE LET items == [i \in 1..Len(list.a) |->
                          NormalizeItem(list.a[i], i - 1, Draw(seed, i))]
         IN  IF \E i \in 1..Len(items) : ~items[i].ok THEN Throw(TypeError)
             ELSE Return(JArr(Truncate([i \in 1..Len(items) |-> items[i].val])))

\* The primary try block from the response on, lines 198-206.
PrimaryTry(resp, seed) ==
    IF resp.net = "error" THEN Throw(NetworkError)
    ELSE IF ~resp.ok THEN Throw(<<"Primary API network error">>)
    ELSE IF ~resp.json THEN Throw(SyntaxError)
    ELSE LET data == resp.data
             inner == IF Truthy(data) THEN Get(data, "data") ELSE data
             word_list == IF Truthy(inner) THEN Get(inner, "word_list") ELSE inner
         IN  IF Truthy(word_list) THEN parseDouyinData(word_list, seed)
             ELSE Throw(<<"Primary API invalid format">>)

\* The backup try block ended without returning (line 223 fell through).
FellThrough == [ok |-> FALSE, msg |-> <<"no word_list">>]

\* The backup try block from the response on, lines 217-223.
BackupTry(resp, seed) ==
    IF resp.net = "error" THEN Throw(NetworkError)
    ELSE IF ~resp.ok THEN Throw(<<"Backup API network error">>)
    ELSE IF ~resp.json THEN Throw(SyntaxError)
    ELSE LET data == resp.data
             word_list == IF Truthy(data) THEN Get(data, "word_list") ELSE data
         IN  IF Truthy(word_list) THEN parseDouyinData(word_list, seed)
             ELSE FellThrough

\* The call the catch block of the primary tier makes, line 217.
CallAfterPrimarySkipsBackup == "GENERATIVE"

CallAfterPrimary == "BACKUP"

\* 获取数据失败 - 请检查网络, line 269
NetworkFailureTitle ==
    <<"u83b7", "u53d6", "u6570", "u636e", "u5931", "u8d25", " ", "-", " ",
      "u8bf7", "u68c0", "u67e5", "u7f51", "u7edc">>
\* 无法连接到抖音 API 且 DeepSeek 未配置, line 269
NetworkFailureDescription ==
    <<"u65e0", "u6cd5", "u8fde", "u63a5", "u5230", "u6296", "u97f3", " ",
      "A", "P", "I", " ", "u4e14", " ", "D", "e", "e", "p", "S", "e", "e",
      "k", " ", "u672a", "u914d", "u7f6e">>
\* DeepSeek API 连接失败, line 270
MissingCredentialTitle ==
    <<"D", "e", "e", "p", "S", "e", "e", "k", " ", "A", "P", "I", " ",
      "u8fde", "u63a5", "u5931", "u8d25">>
\* 请在设置中配置您的 DeepSeek API Key 以启用模拟数据。, line 270
MissingCredentialDescription ==
    <<"u8bf7", "u5728", "u8bbe", "u7f6e", "u4e2d", "u914d", "u7f6e",
      "u60a8", "u7684", " ", "D", "e", "e", "p", "S", "e", "e", "k", " ",
      "A", "P", "I", " ", "K", "e", "y", " ", "u4ee5", "u542f", "u7528",
      "u6a21", "u62df", "u6570", "u636e", "u3002">>

\* The list the catch block of fetchSimulatedTrends returns, lines 268-271.
PlaceholderTrends ==
    JArr(<< JObj(TrendItemKeys,
                 <<JNum(1), JStr(NetworkFailureTitle), JNum(0), JStr(SheHuiMinSheng),
                   JNum(0), JStr(NetworkFailureDescription)>>),
            JObj(TrendItemKeys,
                 <<JNum(2), JStr(MissingCredentialTitle), JNum(12500000),
                   JStr(KeJiShuMa), JNum(890000),
                   JStr(MissingCredentialDescription)>>) >>)

\* The callback of the map of lines 260-263: { ...t, heatRise: ... }.
BackfillHeatRise(t, r) ==
    IF Nullish(t) THEN Throw(TypeError)
    ELSE LET rise == calculateHeatRiseOf(Get(t, "hotValue"), r)
         IN  Return(Put(IF t.t = "obj" THEN t ELSE JObj(<<>>, <<>>), "heatRise", rise))

\* The try block of fetchSimulatedTrends from the response on, lines 253-263.
SimulatedTry(resp, seed) ==
    LET result == callDeepSeekResume(resp)
    IN  IF ~result.ok THEN result
        ELSE LET parsed == JSON_parseValue(result.val.content)
             IN  IF ~parsed.ok THEN parsed
                 ELSE IF Nullish(parsed.val) THEN Throw(TypeError)
                 ELSE LET trends == Get(parsed.val, "trends")
                          list == IF Truthy(trends) THEN trends ELSE JArr(<<>>)
                      IN  IF list.t # "arr" THEN Throw(TypeError)
                          ELSE LET items == [i \in 1..Len(list.a) |->
                                        BackfillHeatRise(list.a[i], Draw(seed, i))]
                               IN  IF \E i \in 1..Len(items) : ~items[i].ok
                                   THEN Throw(TypeError)
                                   ELSE Return(JArr([i \in 1..Len(items) |-> items[i].val]))

\* A catch block that passes on every error but the missing credential.
SimulatedCatchRethrows(thrown) ==
    IF thrown.msg # MISSING_API_KEY THEN thrown ELSE Return(PlaceholderTrends)

\* A catch block that returns the two notices in the other order.
SimulatedCatchSwapped(thrown) ==
    Return(JArr(<<PlaceholderTrends.a[2], PlaceholderTrends.a[1]>>))

\* The catch block of fetchSimulatedTrends, lines 264-272.
SimulatedCatch(thrown) == Return(PlaceholderTrends)

-----------------------------------------------------------------------------
(* Inputs *)

\* Title fragments: keywords of every category, the halves of a keyword
\* that spans two categories, and a character of no keyword.
Fragments == {
    <<"u5267">>,             \* 剧    YuLeJingXuan
    <<"u5403">>,             \* 吃    XingQuChuiLei; 吃鸡 is YuLeJingXuan
    <<"u9e21">>,             \* 鸡    no keyword alone
    <<"u56de", "u5e94">>,    \* 回应  SheHuiMinSheng
    <<"A", "I">>,            \* AI    KeJiShuMa
    <<"u5986">>,             \* 妆    ShiShangShengHuo
    <<"u732b">>,             \* 猫    QingGanRiChang
    <<"u732b", "u72d7">>,    \* 猫狗  QingGanRiChang, two keywords
    <<"u540e">> }            \* 后    no keyword

RECURSIVE Flatten(_)
Flatten(parts) == IF parts = <<>> THEN <<>> ELSE Head(parts) \o Flatten(Tail(parts))

Titles ==
    {Flatten(p) : p \in UNION {[1..n -> Fragments] : n \in 0..MaxTitleParts}}

\* Titles classified between two classifications of the same title.
OtherTitles == { <<"u5267">>, <<"A", "I">>, <<"u732b", "u72d7">> }

LargeHotValues == {5000000, 12500000}

HotValues == (0..MaxSmallHotValue) \cup LargeHotValues


\* ---- responses of the trend sources ----

Entry(word, hot_value, position) ==
    JObj(<<"word", "hot_value", "position">>, <<word, hot_value, position>>)

\* 测试话题后续: no keyword
ExampleWord == <<"u6d4b", "u8bd5", "u8bdd", "u9898", "u540e", "u7eed">>

\* Entries with a text word and a hot value >= 0.
WellFormedEntries == <<
    Entry(JStr(ExampleWord), JNum(5000000), JNum(3)),
    Entry(JStr(<<"u732b", "u72d7", "u5267">>), JNum(100), JNum(0)),
    JObj(<<"word", "hot_value">>, <<JStr(<<"u540e">>), JNum(0)>>),
    JObj(<<"word", "hot_value", "position", "category">>,
         <<JStr(<<"A", "I", "u5986">>), JNum(12), JNum(7), JStr(XingQuChuiLei)>>) >>

\* Entries that lack a field or hold an unexpected value, and null.
OddEntries == <<
    JObj(<<"hot_value", "position">>, <<JNum(5), JNum(1)>>),
    JObj(<<"word">>, <<JStr(<<"u56de", "u5e94">>)>>),
    Entry(JStr(<<"u5267">>), JNum(-40), JNum(-2)),
    JNull >>

\* The entries of the short lists.
EntryPool ==
    {WellFormedEntries[1], WellFormedEntries[4]}
        \cup {OddEntries[i] : i \in 1..Len(OddEntries)}

\* n entries: the pool, repeated.
Cycle(pool, n) == [i \in 1..n |-> pool[((i - 1) % Len(pool)) + 1]]

ShortLists(pool) == UNION {[1..n -> pool] : n \in 0..MaxShortLen}

LongLengths == (SliceLimit - 1)..(SliceLimit + MaxExtra)

LongLists(pool) == {Cycle(pool, n) : n \in LongLengths}

\* A long list of well-formed entries with null after the slice limit.
LongListNullTail == Append(Cycle(WellFormedEntries, SliceLimit), JNull)

\* What the word_list field may hold: a list, or something else.
WordListsOf(lists) ==
    {JArr(l) : l \in lists} \cup {JNum(5), JStr(<<>>), JObj(<<>>, <<>>)}

WordLists ==
    WordListsOf(ShortLists(EntryPool) \cup LongLists(WellFormedEntries)
                    \cup {LongListNullTail})

\* { data: { word_list } } and { word_list }
PrimaryBody(word_list) == JObj(<<"data">>, <<JObj(<<"word_list">>, <<word_list>>)>>)
BackupBody(word_list) == JObj(<<"word_list">>, <<word_list>>)

OddBodies == {JNull, JNum(1), JObj(<<>>, <<>>), JObj(<<"data">>, <<JNull>>),
              JObj(<<"data">>, <<JObj(<<>>, <<>>)>>)}

SourceFailures == {NetworkFailure, HttpNotJson(TRUE), HttpNotJson(FALSE)}

PrimaryResponsesOf(wordLists) ==
    SourceFailures
        \cup {HttpResponse(TRUE, b) : b \in OddBodies \cup {BackupBody(JArr(<<>>))}}
        \cup {HttpResponse(FALSE, PrimaryBody(JArr(WellFormedEntries)))}
        \cup {HttpResponse(TRUE, PrimaryBody(l)) : l \in wordLists}

BackupResponsesOf(wordLists) ==
    SourceFailures
        \cup {HttpResponse(TRUE, b) : b \in OddBodies \cup {PrimaryBody(JArr(<<>>))}}
        \cup {HttpResponse(FALSE, BackupBody(JArr(WellFormedEntries)))}
        \cup {HttpResponse(TRUE, BackupBody(l)) : l \in wordLists}

PrimaryResponses == PrimaryResponsesOf(WordLists)
BackupResponses == BackupResponsesOf(WordLists)

\* ---- responses of the completion service ----

\* The categories TRENDS_PROMPT asks for, line 66.
PromptCategories == {<<"u5a31", "u4e50">>, <<"u65b0", "u95fb">>, <<"u79d1", "u6280">>, <<"u751f", "u6d3b">>, <<"u4f53", "u80b2">>, <<"u6e38", "u620f">>}
    \* 娱乐 新闻 科技 生活 体育 游戏

GeneratedItem(rank, word, hotValue, cat) ==
    JObj(<<"rank", "title", "hotValue", "category", "description">>,
         <<JNum(rank), JStr(word), JNum(hotValue), JStr(cat), JStr(<<"u540e">>)>>)

\* Items the service may generate: a category of the prompt, a category of
\* CATEGORIES, and an item without hotValue and category.
GeneratedItems == <<
    GeneratedItem(1, <<"u5403", "u9e21">>, 12000000, <<"u5a31", "u4e50">>),
    GeneratedItem(2, <<"u732b">>, 3000000, QingGanRiChang),
    JObj(<<"rank", "title">>, <<JNum(3), JStr(<<"u540e">>)>>) >>

GeneratedPool == {GeneratedItems[i] : i \in 1..Len(GeneratedItems)} \cup {JNull}

TrendsBody(trends) == JObj(<<"trends">>, <<trends>>)

GeneratedValuesOf(lists) ==
    {JNull, JNum(5), JObj(<<>>, <<>>), TrendsBody(JNull), TrendsBody(JNum(5))}
        \cup {TrendsBody(JArr(l)) : l \in lists}

\* Texts that are not JSON: the empty text, an open brace, two values.
BrokenTexts == { <<>>, <<Tok("{")>>, <<Tok("null"), Tok("null")>> }

\* What message.content may hold.
ContentsOf(values) ==
    {JStr(JSON_stringify(v)) : v \in values}
        \cup {JStr(tx) : tx \in BrokenTexts}
        \cup {Undefined}

Contents ==
    ContentsOf(GeneratedValuesOf(ShortLists(GeneratedPool) \cup LongLists(GeneratedItems)))

Usage(n) == JObj(<<"total_tokens">>, <<JNum(n)>>)

CompletionBody(content) ==
    JObj(<<"choices", "usage">>,
         <<JArr(<<JObj(<<"message">>, <<JObj(<<"content">>, <<content>>)>>)>>),
           Usage(10)>>)

ErrorBody(message) == JObj(<<"error">>, <<JObj(<<"message">>, <<message>>)>>)

OddCompletionBodies ==
    {JNull, JObj(<<>>, <<>>), JObj(<<"choices">>, <<JArr(<<>>)>>),
     JObj(<<"choices">>, <<JArr(<<JObj(<<>>, <<>>)>>)>>)}

CompletionFailures ==
    {NetworkFailure, HttpNotJson(TRUE), HttpNotJson(FALSE),
     HttpResponse(FALSE, JNull), HttpResponse(FALSE, JObj(<<>>, <<>>)),
     HttpResponse(FALSE, ErrorBody(JStr(<<"Rate limit reached">>))),
     HttpResponse(FALSE, ErrorBody(JStr(MISSING_API_KEY)))}

TrendsCompletionsOf(contents) ==
    CompletionFailures
        \cup {HttpResponse(TRUE, b) : b \in OddCompletionBodies}
        \cup {HttpResponse(TRUE, CompletionBody(c)) : c \in contents}

TrendsCompletions == TrendsCompletionsOf(Contents)

\* ---- the stored credential ----

EmptyStorage == [k \in {} |-> <<>>]

ApiKeyStorages ==
    {EmptyStorage,
     setItem(EmptyStorage, API_KEY_STORAGE_KEY, <<>>),
     setItem(EmptyStorage, API_KEY_STORAGE_KEY, <<"sk-key">>)}

-----------------------------------------------------------------------------
(* Classifier harness *)

ClsIdle ==
    /\ title = <<>>
    /\ category = NoCategory
    /\ firstCategory = NoCategory
    /\ lastCategory = NoCategory
    /\ clsStage = 0

EstIdle ==
    /\ totalHotValue = 0
    /\ random = -1
    /\ heatRise = -1

NoTrend == <<"NoTrend">>
NoPut == [put |-> "none"]

\* The trends of the modal's model: 测试话题后续 and 剧.
ModalTitles == {ExampleWord, <<"u5267">>}

MdIdle ==
    /\ selectedTrend = NoTrend
    /\ mdMount = 0
    /\ analysis = JNull
    /\ loading = FALSE
    /\ error = JNull
    /\ mdCalls = {}
    /\ mdCacheHit = FALSE
    /\ lastPut = [t \in ModalTitles |-> NoPut]

NoOutcome == [ok |-> FALSE, msg |-> <<"NoOutcome">>]

AzIdle ==
    /\ azResponse = NoResponse
    /\ azItem = NoOutcome
    /\ azGlobal = NoOutcome
    /\ azEvents = NoOutcome

AgIdle ==
    /\ trendsLength = 0
    /\ hasKey = FALSE
    /\ showSettings = FALSE
    /\ showKeyUpdatePrompt = FALSE
    /\ analyzingGlobal = FALSE
    /\ globalAnalysis = JNull
    /\ bigEvents = JArr(<<>>)
    /\ tokenUsage = 0
    /\ analysisProgress = 0
    /\ intervalActive = FALSE
    /\ alerts = 0
    /\ agRuns = <<>>

RfIdle ==
    /\ refreshing = FALSE
    /\ loadingTrends = TRUE
    /\ trendsFrom = 0
    /\ rfCalls = <<>>

FtIdle ==
    /\ ftPc = "idle"
    /\ ftCalls = <<>>
    /\ ftInFlight = 0
    /\ ftFailed = {}
    /\ ftResponse = NoResponse
    /\ ftResult = Undefined
    /\ ftPath = "NONE"

InitClassify ==
    /\ title \in Titles
    /\ category = NoCategory
    /\ firstCategory = NoCategory
    /\ lastCategory = NoCategory
    /\ clsStage = 0
    /\ EstIdle
    /\ localStorage = EmptyStorage
    /\ FtIdle
    /\ MdIdle
    /\ AzIdle
    /\ AgIdle
    /\ RfIdle

\* determineCategory(title)
Classify ==
    /\ category' = determineCategory(title)
    /\ firstCategory' = IF firstCategory = NoCategory THEN category' ELSE firstCategory
    /\ lastCategory' = category'
    /\ clsStage' = IF clsStage = 0 THEN 1 ELSE IF clsStage = 2 THEN 3 ELSE clsStage
    /\ UNCHANGED <<title, estVars, localStorage, ftVars, mdVars, azVars, agVars, rfVars>>

\* determineCategory(u) for another title u
ClassifyOther ==
    /\ \E u \in OtherTitles : lastCategory' = determineCategory(u)
    /\ clsStage' = IF clsStage = 1 THEN 2 ELSE clsStage
    /\ UNCHANGED <<title, category, firstCategory, estVars, localStorage, ftVars, mdVars, azVars, agVars, rfVars>>

NextClassify == Classify \/ ClassifyOther

SpecClassify == InitClassify /\ [][NextClassify]_vars

-----------------------------------------------------------------------------
(* Estimator harness *)

InitEstimate ==
    /\ totalHotValue \in HotValues
    /\ random = -1
    /\ heatRise = -1
    /\ ClsIdle
    /\ localStorage = EmptyStorage
    /\ FtIdle
    /\ MdIdle
    /\ AzIdle
    /\ AgIdle
    /\ RfIdle

\* calculateHeatRise(totalHotValue) with the draw r
EstimateRise ==
    /\ \E r \in 0..(RandomDen - 1) :
        /\ random' = r
        /\ heatRise' = calculateHeatRise(totalHotValue, r)
    /\ UNCHANGED <<totalHotValue, clsVars, localStorage, ftVars, mdVars, azVars, agVars, rfVars>>

NextEstimate == EstimateRise

SpecEstimate == InitEstimate /\ [][NextEstimate]_vars

-----------------------------------------------------------------------------
(* One fetchTrends invocation *)

Seeds == 0..(RandomDen - 1)

InitFetch ==
    /\ localStorage \in ApiKeyStorages
    /\ FtIdle
    /\ ClsIdle
    /\ EstIdle
    /\ MdIdle
    /\ AzIdle
    /\ AgIdle
    /\ RfIdle

\* The invocation ends: its promise resolves with r's value, or rejects.
Settle(r, path) ==
    /\ ftPc' = IF r.ok THEN "done" ELSE "rejected"
    /\ ftResult' = IF r.ok THEN r.val ELSE Undefined
    /\ ftPath' = IF r.ok THEN path ELSE "NONE"

\* An external call is issued.
Issue(tier) ==
    /\ ftCalls' = Append(ftCalls, tier)
    /\ ftInFlight' = ftInFlight + 1

\* fetchSimulatedTrends up to the fetch of callDeepSeek, lines 252-256 and
\* 17-22: without a credential the catch block settles the invocation at
\* once.  failed: the tiers that have failed so far.
StartSimulated(failed) ==
    LET started == callDeepSeekStart(localStorage)
    IN  IF started.ok
        THEN /\ Issue("GENERATIVE")
             /\ ftPc' = "generativePending"
             /\ ftFailed' = failed
             /\ UNCHANGED <<ftResult, ftPath>>
        ELSE /\ Settle(SimulatedCatch(started), "PLACEHOLDER")
             /\ ftFailed' = failed \cup {"GENERATIVE"}
             /\ UNCHANGED <<ftCalls, ftInFlight>>

\* fetchTrends() is called: the primary fetch is issued, line 198.
FetchTrends ==
    /\ ftPc = "idle"
    /\ Issue("PRIMARY")
    /\ ftPc' = "primaryPending"
    /\ UNCHANGED <<ftFailed, ftResponse, ftResult, ftPath, localStorage, clsVars, estVars, mdVars, azVars, agVars, rfVars>>

\* The exchange of the call in flight ends.
Respond(pending, responded, responses) ==
    /\ ftPc = pending
    /\ \E resp \in responses : ftResponse' = resp
    /\ ftInFlight' = ftInFlight - 1
    /\ ftPc' = responded
    /\ UNCHANGED <<ftCalls, ftFailed, ftResult, ftPath, localStorage, clsVars, estVars, mdVars, azVars, agVars, rfVars>>

PrimaryResponds == Respond("primaryPending", "primaryResponded", PrimaryResponses)
BackupResponds == Respond("backupPending", "backupResponded", BackupResponses)
GenerativeResponds == Respond("generativePending", "generativeResponded", TrendsCompletions)

\* The three tries over the responses and draws above, tabulated.
PrimaryOutcomes ==
    [resp \in PrimaryResponses, seed \in Seeds |-> PrimaryTry(resp, seed)]
BackupOutcomes ==
    [resp \in BackupResponses, seed \in Seeds |-> BackupTry(resp, seed)]
SimulatedOutcomes ==
    [resp \in TrendsCompletions, seed \in Seeds |-> SimulatedTry(resp, seed)]

\* fetchTrends resumes with the primary response, lines 199-217.
PrimaryResume ==
    /\ ftPc = "primaryResponded"
    /\ \E seed \in Seeds :
        LET r == PrimaryOutcomes[ftResponse, seed]
        IN  IF r.ok
            THEN /\ Settle(r, "PRIMARY")
                 /\ UNCHANGED <<ftCalls, ftInFlight, ftFailed>>
            ELSE IF CallAfterPrimary = "BACKUP"
            THEN /\ Issue("BACKUP")
                 /\ ftPc' = "backupPending"
                 /\ ftFailed' = ftFailed \cup {"PRIMARY"}
                 /\ UNCHANGED <<ftResult, ftPath>>
            ELSE StartSimulated(ftFailed \cup {"PRIMARY"})
    /\ UNCHANGED <<ftResponse, localStorage, clsVars, estVars, mdVars, azVars, agVars, rfVars>>

\* fetchTrends resumes with the backup response, lines 218-229.
BackupResume ==
    /\ ftPc = "backupResponded"
    /\ \E seed \in Seeds :
        LET r == BackupOutcomes[ftResponse, seed]
        IN  IF r.ok
            THEN /\ Settle(r, "BACKUP")
                 /\ UNCHANGED <<ftCalls, ftInFlight, ftFailed>>
            ELSE StartSimulated(ftFailed \cup {"BACKUP"})
    /\ UNCHANGED <<ftResponse, localStorage, clsVars, estVars, mdVars, azVars, agVars, rfVars>>

\* fetchSimulatedTrends resumes with the completion, lines 257-272.
GenerativeResume ==
    /\ ftPc = "generativeResponded"
    /\ \E seed \in Seeds :
        LET r == SimulatedOutcomes[ftResponse, seed]
        IN  IF r.ok
            THEN /\ Settle(r, "GENERATIVE")
                 /\ UNCHANGED ftFailed
            ELSE /\ Settle(SimulatedCatch(r), "PLACEHOLDER")
                 /\ ftFailed' = ftFailed \cup {"GENERATIVE"}
    /\ UNCHANGED <<ftCalls, ftInFlight, ftResponse, localStorage, clsVars, estVars, mdVars, azVars, agVars, rfVars>>

NextFetch ==
    \/ FetchTrends
    \/ PrimaryResponds
    \/ PrimaryResume
    \/ BackupResponds
    \/ BackupResume
    \/ GenerativeResponds
    \/ GenerativeResume

SpecFetch == InitFetch /\ [][NextFetch]_vars

\* The steps of an invocation under way; at most one of them is enabled.
FetchProgress ==
    \/ PrimaryResponds
    \/ PrimaryResume
    \/ BackupResponds
    \/ BackupResume
    \/ GenerativeResponds
    \/ GenerativeResume

\* One invocation in which every call settles and every continuation runs.
FairSpecFetch == SpecFetch /\ WF_vars(FetchProgress)

-----------------------------------------------------------------------------
(* Per-trend analysis, gemini.ts lines 275-301 *)

\* 未知
Unknown == <<"u672a", "u77e5">>
\* 分析服务暂不可用
ServiceDown == <<"u5206", "u6790", "u670d", "u52a1", "u6682", "u4e0d", "u53ef", "u7528">>

Aspect(label, text) == JObj(<<"label", "analysis">>, <<JStr(label), JStr(text)>>)

AnalysisKeys ==
    <<"viralityScore", "sentiment", "domain", "contentForm", "lifecycle", "keywords">>

\* The record returned when the call fails, lines 289-298; its keywords are
\* 错误, 配置, API.
FallbackAnalysis ==
    JObj(AnalysisKeys,
         <<JNum(0), Aspect(Unknown, ServiceDown), Aspect(Unknown, ServiceDown),
           Aspect(Unknown, ServiceDown), Aspect(Unknown, ServiceDown),
           JArr(<<JStr(<<"u9519", "u8bef">>), JStr(<<"u914d", "u7f6e">>),
                  JStr(<<"A", "P", "I">>)>>)>>)

\* The catch block, lines 285-299: a missing credential is thrown on, any
\* other error yields the fallback record without usage.
AnalysisCatch(thrown) ==
    IF thrown.msg = MISSING_API_KEY THEN thrown
    ELSE Return([data |-> FallbackAnalysis, usage |-> Undefined])

\* analyzeTrendWithAI up to the fetch of callDeepSeek.
analyzeTrendWithAIStart(storage) ==
    LET started == callDeepSeekStart(storage)
    IN  IF started.ok THEN started ELSE AnalysisCatch(started)

\* analyzeTrendWithAI from the response on, lines 277-284.
analyzeTrendWithAIResume(resp) ==
    LET result == callDeepSeekResume(resp)
    IN  IF ~result.ok THEN AnalysisCatch(result)
        ELSE LET parsed == JSON_parseValue(result.val.content)
             IN  IF ~parsed.ok THEN AnalysisCatch(parsed)
                 ELSE Return([data |-> parsed.val, usage |-> result.val.usage])

-----------------------------------------------------------------------------
(* The analysis modal and its cache, AnalysisModal lines 12-54 *)

\* The modal is mounted at most MaxMounts times.
MaxMounts == 3

\* A cache key that is the same for every trend.
CacheKeyShared(trendTitle) == <<"analysis_cache_">>

\* `analysis_cache_${trend.title}`
CacheKey(trendTitle) == <<"analysis_cache_">> \o trendTitle

MISSING_KEY == JStr(<<"MISSING_KEY">>)
\* "DeepSeek 目前不可用"
Unavailable == JStr(<<"DeepSeek ", "u76ee", "u524d", "u4e0d", "u53ef", "u7528">>)

\* Analyses the service may generate: two records that differ in score,
\* labels and keywords, the second without keywords.
GeneratedAnalyses ==
    {JObj(AnalysisKeys,
          <<JNum(86), Aspect(<<"u6b63", "u9762">>, <<"u70ed", "u70b9">>),
            Aspect(Unknown, <<>>), Aspect(<<"u5267">>, ServiceDown),
            Aspect(<<"24h">>, <<"u70ed", "u70b9">>),
            JArr(<<JStr(<<"u70ed", "u70b9">>), JStr(<<"u5267">>)>>)>>),
     JObj(AnalysisKeys,
          <<JNum(12), Aspect(<<"u70ed", "u70b9">>, <<"u6b63", "u9762">>),
            Aspect(<<"u5267">>, <<>>), Aspect(Unknown, ServiceDown),
            Aspect(<<"7d">>, <<"u6b63", "u9762">>),
            JArr(<<>>)>>)}

\* Responses to the analysis request: failures, a body without choices,
\* content that is not JSON, null content, and the generated analyses.
AnalysisCompletions ==
    {NetworkFailure,
     HttpResponse(FALSE, ErrorBody(JStr(<<"Rate limit reached">>))),
     HttpResponse(FALSE, ErrorBody(JStr(MISSING_API_KEY))),
     HttpResponse(TRUE, JObj(<<>>, <<>>)),
     HttpResponse(TRUE, CompletionBody(JStr(<<Tok("{")>>))),
     HttpResponse(TRUE, CompletionBody(JNull))}
        \cup {HttpResponse(TRUE, CompletionBody(JStr(JSON_stringify(a)))) :
                a \in GeneratedAnalyses}

\* Strings an entry may be overwritten with from outside the application:
\* the empty string and a text that is not JSON.
CorruptTexts == { <<>>, <<Tok("{")>> }

InitModal ==
    /\ localStorage \in ApiKeyStorages
    /\ MdIdle
    /\ FtIdle
    /\ ClsIdle
    /\ EstIdle
    /\ AzIdle
    /\ AgIdle
    /\ RfIdle

\* A modal is mounted with fresh state.
Mount(trendTitle) ==
    /\ selectedTrend' = trendTitle
    /\ mdMount' = mdMount + 1

\* analyzeTrendWithAI(trend.title) with its then, catch and finally, lines
\* 39-53, as far as it runs before the response: without a credential the
\* promise rejects at once.  storage: localStorage at the call.
CallAnalysis(trendTitle, storage) ==
    LET started == analyzeTrendWithAIStart(storage)
    IN  /\ analysis' = JNull
        /\ IF started.ok
           THEN /\ mdCalls' = mdCalls \cup {[mount |-> mdMount + 1, title |-> trendTitle]}
                /\ loading' = TRUE
                /\ error' = JNull
           ELSE /\ mdCalls' = mdCalls
                /\ loading' = FALSE
                /\ error' = IF started.msg = MISSING_API_KEY THEN MISSING_KEY
                            ELSE Unavailable

\* A cache branch that leaves the modal loading.
ServeFromCacheKeepsLoading(parsed) ==
    /\ analysis' = parsed.val
    /\ loading' = TRUE
    /\ error' = JNull
    /\ mdCacheHit' = TRUE
    /\ UNCHANGED <<localStorage, mdCalls>>

\* The cache branch of the effect, lines 22-31: the parsed entry is shown
\* and the effect returns.
ServeFromCache(parsed) ==
    /\ analysis' = parsed.val
    /\ loading' = FALSE
    /\ error' = JNull
    /\ mdCacheHit' = TRUE
    /\ UNCHANGED <<localStorage, mdCalls>>

\* The user selects a trend: the modal mounts and its effect runs, lines
\* 17-54.
SelectTrend ==
    /\ selectedTrend = NoTrend
    /\ mdMount < MaxMounts
    /\ \E trendTitle \in ModalTitles :
        LET cacheKey == CacheKey(trendTitle)
            cachedData == getItem(localStorage, cacheKey)
            parsed == JSON_parseValue(cachedData)
        IN  /\ Mount(trendTitle)
            /\ IF Truthy(cachedData) /\ parsed.ok
               THEN ServeFromCache(parsed)
               ELSE /\ localStorage' = IF Truthy(cachedData)
                                       THEN removeItem(localStorage, cacheKey)
                                       ELSE localStorage
                    /\ mdCacheHit' = FALSE
                    /\ CallAnalysis(trendTitle, localStorage')
    /\ UNCHANGED <<lastPut, clsVars, estVars, ftVars, azVars, agVars, rfVars>>

\* onClose or onOpenSettings, App lines 744-750: the modal unmounts and its
\* state is gone.
CloseModal ==
    /\ selectedTrend # NoTrend
    /\ selectedTrend' = NoTrend
    /\ analysis' = JNull
    /\ loading' = FALSE
    /\ error' = JNull
    /\ mdCacheHit' = FALSE
    /\ UNCHANGED <<mdMount, mdCalls, lastPut, localStorage, clsVars, estVars, ftVars, azVars, agVars, rfVars>>

\* call's modal is still mounted, so that its state setters take effect.
Mounted(call) == selectedTrend # NoTrend /\ mdMount = call.mount

\* A key computed from the trend selected when the call returns.
CacheKeyOfSelected(call) ==
    CacheKey(IF selectedTrend # NoTrend THEN selectedTrend ELSE call.title)

\* The cacheKey that the callbacks of a call close over, line 19: the key
\* of the trend the effect ran for.
CacheKeyOfCall(call) == CacheKey(call.title)

\* The response to an analysis call arrives: analyzeTrendWithAI resumes and
\* then, catch and finally run, lines 40-53.
AnalysisSettles ==
    \E call \in mdCalls, resp \in AnalysisCompletions :
        LET response == analyzeTrendWithAIResume(resp)
            cacheKey == CacheKeyOfCall(call)
        IN  /\ mdCalls' = mdCalls \ {call}
            /\ IF response.ok
               THEN /\ analysis' = IF Mounted(call) THEN response.val.data ELSE analysis
                    /\ localStorage' =
                            setItem(localStorage, cacheKey,
                                    JSON_stringify(response.val.data))
                    /\ lastPut' =
                            [lastPut EXCEPT ![call.title] =
                                [val |-> response.val.data,
                                 overwrote |-> lastPut[call.title] # NoPut]]
                    /\ UNCHANGED error
               ELSE /\ error' = IF ~Mounted(call) THEN error
                                ELSE IF response.msg = MISSING_API_KEY THEN MISSING_KEY
                                ELSE Unavailable
                    /\ UNCHANGED <<analysis, localStorage, lastPut>>
            /\ loading' = IF Mounted(call) THEN FALSE ELSE loading
            /\ UNCHANGED <<selectedTrend, mdMount, mdCacheHit, clsVars, estVars, ftVars, azVars, agVars, rfVars>>

\* Something outside the application overwrites a cache entry.
CorruptEntry ==
    /\ \E trendTitle \in ModalTitles, text \in CorruptTexts :
        /\ localStorage' = setItem(localStorage, CacheKey(trendTitle), text)
        /\ lastPut' = [lastPut EXCEPT ![trendTitle] = NoPut]
    /\ UNCHANGED <<selectedTrend, mdMount, analysis, loading, error, mdCalls,
                   mdCacheHit, clsVars, estVars, ftVars, azVars, agVars, rfVars>>

NextModal ==
    \/ SelectTrend
    \/ CloseModal
    \/ AnalysisSettles
    \/ CorruptEntry

SpecModal == InitModal /\ [][NextModal]_vars

-----------------------------------------------------------------------------
(* Aggregate analysis and event detection, gemini.ts lines 303-339 *)

AnalysisFailed == <<"Analysis failed">>

\* The catch block of analyzeGlobalTrends, lines 316-319.
GlobalCatch(thrown) ==
    IF thrown.msg = MISSING_API_KEY THEN thrown ELSE Throw(AnalysisFailed)

analyzeGlobalTrendsStart(storage) ==
    LET started == callDeepSeekStart(storage)
    IN  IF started.ok THEN started ELSE GlobalCatch(started)

\* analyzeGlobalTrends from the response on, lines 308-315.
analyzeGlobalTrendsResume(resp) ==
    LET result == callDeepSeekResume(resp)
    IN  IF ~result.ok THEN GlobalCatch(result)
        ELSE LET parsed == JSON_parseValue(result.val.content)
             IN  IF ~parsed.ok THEN GlobalCatch(parsed)
                 ELSE Return([data |-> parsed.val, usage |-> result.val.usage])

\* { events: [] }
NoEvents == JObj(<<"events">>, <<JArr(<<>>)>>)

\* The catch block of identifyBigEvents, lines 335-339.
EventsCatch(thrown) ==
    IF thrown.msg = MISSING_API_KEY THEN thrown
    ELSE Return([data |-> NoEvents, usage |-> Undefined])

identifyBigEventsStart(storage) ==
    LET started == callDeepSeekStart(storage)
    IN  IF started.ok THEN started ELSE EventsCatch(started)

\* identifyBigEvents from the response on, lines 327-334.
identifyBigEventsResume(resp) ==
    LET result == callDeepSeekResume(resp)
    IN  IF ~result.ok THEN EventsCatch(result)
        ELSE LET parsed == JSON_parseValue(result.val.content)
             IN  IF ~parsed.ok THEN EventsCatch(parsed)
                 ELSE Return([data |-> parsed.val, usage |-> result.val.usage])

-----------------------------------------------------------------------------
(* Analysis harness: the three operations on one response *)

\* What data.usage may hold.
Usages ==
    {Undefined, JNull, JObj(<<>>, <<>>), Usage(0), Usage(10), Usage(25)}

CompletionBodyWith(content, usage) ==
    JObj(<<"choices", "usage">>,
         <<JArr(<<JObj(<<"message">>, <<JObj(<<"content">>, <<content>>)>>)>>),
           usage>>)

BigEvent(t) ==
    JObj(<<"title", "reason", "durationLabel">>,
         <<JStr(t), JStr(<<"u70ed", "u70b9">>), JStr(<<"24h">>)>>)

\* Event records the service may generate: with one or two events, with
\* none, and without the events field.
GeneratedEvents ==
    {JObj(<<"events">>, <<JArr(<<BigEvent(ExampleWord)>>)>>),
     JObj(<<"events">>, <<JArr(<<BigEvent(<<"u5267">>), BigEvent(ExampleWord)>>)>>),
     NoEvents,
     JObj(<<>>, <<>>)}

\* What message.content may hold in answer to an analysis request.
AnalysisContents ==
    {JStr(JSON_stringify(v)) : v \in GeneratedAnalyses \cup GeneratedEvents}
        \cup {JStr(tx) : tx \in BrokenTexts}
        \cup {Undefined, JNull}

AnalysisResponses ==
    CompletionFailures
        \cup {HttpResponse(TRUE, b) : b \in OddCompletionBodies}
        \cup {HttpResponse(TRUE, CompletionBodyWith(c, u)) :
                c \in AnalysisContents, u \in Usages}

InitAnalyze ==
    /\ localStorage \in ApiKeyStorages
    /\ azResponse \in AnalysisResponses
    /\ azItem = NoOutcome
    /\ azGlobal = NoOutcome
    /\ azEvents = NoOutcome
    /\ ClsIdle
    /\ EstIdle
    /\ FtIdle
    /\ MdIdle
    /\ AgIdle
    /\ RfIdle

\* The outcome of an operation: of its start when that throws, else of its
\* resumption with the response.
Outcome(started, resumed) == IF started.ok THEN resumed ELSE started

\* analyzeTrendWithAI(title) is called and settles.
AnalyzeItem ==
    /\ azItem = NoOutcome
    /\ azItem' = Outcome(analyzeTrendWithAIStart(localStorage),
                         analyzeTrendWithAIResume(azResponse))
    /\ UNCHANGED <<azResponse, azGlobal, azEvents, localStorage, clsVars, estVars,
                   ftVars, mdVars, agVars, rfVars>>

\* analyzeGlobalTrends(trends) is called and settles.
AnalyzeGlobal ==
    /\ azGlobal = NoOutcome
    /\ azGlobal' = Outcome(analyzeGlobalTrendsStart(localStorage),
                           analyzeGlobalTrendsResume(azResponse))
    /\ UNCHANGED <<azResponse, azItem, azEvents, localStorage, clsVars, estVars,
                   ftVars, mdVars, agVars, rfVars>>

\* identifyBigEvents(trends) is called and settles.
IdentifyBigEvents ==
    /\ azEvents = NoOutcome
    /\ azEvents' = Outcome(identifyBigEventsStart(localStorage),
                           identifyBigEventsResume(azResponse))
    /\ UNCHANGED <<azResponse, azItem, azGlobal, localStorage, clsVars, estVars,
                   ftVars, mdVars, agVars, rfVars>>

NextAnalyze == AnalyzeItem \/ AnalyzeGlobal \/ IdentifyBigEvents

SpecAnalyze == InitAnalyze /\ [][NextAnalyze]_vars

-----------------------------------------------------------------------------
(* The aggregate analysis of App, lines 111-173 and 396-622 *)

\* n percent in halves of a percent, the unit of analysisProgress: the
\* smallest increment of the progress is 0.5, line 128.
Pct(n) == 2 * n

\* At most MaxRuns aggregate runs are started.
MaxRuns == 2

Pending == [st |-> "pending"]
Discarded == [st |-> "discarded"]

\* A call of a run has settled and its outcome is held.
IsOutcome(x) == x \notin {Pending, Discarded}

\* A run: the analyzeGlobalTrends call g, the identifyBigEvents call e, and
\* the join of Promise.all with what followed it:
\*   "pending"  the promise of Promise.all is not settled
\*   "delay"    it resolved, the progress is 100 and the timeout is set
\*   "applied"  the timeout callback has run to its end
\*   "threw"    the timeout callback threw
\*   "failed"   it rejected and the catch block has run
Run(g, e, join) == [g |-> g, e |-> e, join |-> join]

\* Responses to the two requests of a run.
AggregateResponses ==
    {NetworkFailure,
     HttpResponse(FALSE, ErrorBody(JStr(MISSING_API_KEY))),
     HttpResponse(TRUE, CompletionBodyWith(JNull, Usage(10))),
     HttpResponse(TRUE, CompletionBodyWith(
        JStr(JSON_stringify(CHOOSE ev \in GeneratedEvents :
                Get(ev, "events").t = "arr" /\ Len(Get(ev, "events").a) = 1)),
        Usage(25))),
     HttpResponse(TRUE, CompletionBodyWith(
        JStr(JSON_stringify(CHOOSE a \in GeneratedAnalyses :
                Get(a, "viralityScore") = JNum(86))),
        Undefined))}

\* What the two calls make of each response.
GlobalOutcomes == [resp \in AggregateResponses |-> analyzeGlobalTrendsResume(resp)]
EventsOutcomes == [resp \in AggregateResponses |-> identifyBigEventsResume(resp)]

\* Texts the user may save as the key.
ApiKeyInputs == { <<>>, <<"sk-key">> }

\* App after its mount effect, lines 19-70, with the trends loaded or none
\* to load.
InitAggregate ==
    /\ localStorage \in {EmptyStorage, setItem(EmptyStorage, API_KEY_STORAGE_KEY, <<"sk-key">>)}
    /\ trendsLength \in {0, 3}
    /\ hasKey = Truthy(getApiKey(localStorage))
    /\ showSettings = FALSE
    /\ showKeyUpdatePrompt = FALSE
    /\ analyzingGlobal = FALSE
    /\ globalAnalysis = JNull
    /\ bigEvents = JArr(<<>>)
    /\ tokenUsage = 0
    /\ analysisProgress = 0
    /\ intervalActive = FALSE
    /\ alerts = 0
    /\ agRuns = <<>>
    /\ ClsIdle
    /\ EstIdle
    /\ FtIdle
    /\ MdIdle
    /\ AzIdle
    /\ RfIdle

\* usage?.total_tokens || 0
TotalTokens(usage) ==
    IF Nullish(usage) THEN 0
    ELSE LET total == Get(usage, "total_tokens")
         IN  IF Truthy(total) /\ total.t = "num" THEN total.n ELSE 0

\* No dialog covers the page.
PageClickable == ~showSettings /\ ~showKeyUpdatePrompt

\* A catch block that leaves the run analysing.
RunCatchKeepsAnalyzing ==
    /\ alerts' = alerts + 1
    /\ analyzingGlobal' = analyzingGlobal
    /\ intervalActive' = FALSE

\* The catch block of handleRunGlobalAnalysis, lines 167-172: the alert is
\* shown and the interval is cleared.
RunCatch ==
    /\ alerts' = alerts + 1
    /\ analyzingGlobal' = FALSE
    /\ intervalActive' = FALSE

\* handleRunGlobalAnalysis, lines 142-173, up to the await: with trends the
\* run state is reset, the progress restarts and the two calls are made;
\* without a credential both reject at once and the catch block runs.
handleRunGlobalAnalysis ==
    IF trendsLength = 0
    THEN UNCHANGED <<agVars, localStorage>>
    ELSE /\ Len(agRuns) < MaxRuns
         /\ globalAnalysis' = JNull
         /\ bigEvents' = JArr(<<>>)
         /\ showKeyUpdatePrompt' = FALSE
         /\ analysisProgress' = 0
         /\ LET g == analyzeGlobalTrendsStart(localStorage)
                e == identifyBigEventsStart(localStorage)
            IN  IF g.ok /\ e.ok
                THEN /\ agRuns' = Append(agRuns, Run(Pending, Pending, "pending"))
                     /\ analyzingGlobal' = TRUE
                     /\ intervalActive' = TRUE
                     /\ UNCHANGED alerts
                ELSE /\ agRuns' = Append(agRuns, Run(Discarded, Discarded, "failed"))
                     /\ RunCatch
         /\ UNCHANGED <<trendsLength, hasKey, showSettings, tokenUsage, localStorage>>

\* The button below the results, lines 535-541.
Regenerate ==
    /\ PageClickable
    /\ ~analyzingGlobal /\ Truthy(globalAnalysis)
    /\ handleRunGlobalAnalysis
    /\ UNCHANGED <<clsVars, estVars, ftVars, mdVars, azVars, rfVars>>

\* The button of the empty state, lines 574-581.
Generate ==
    /\ PageClickable
    /\ ~analyzingGlobal /\ ~Truthy(globalAnalysis) /\ hasKey
    /\ handleRunGlobalAnalysis
    /\ UNCHANGED <<clsVars, estVars, ftVars, mdVars, azVars, rfVars>>

\* The analyze-now button of the prompt, lines 612-617.
AnalyzeFromPrompt ==
    /\ showKeyUpdatePrompt
    /\ handleRunGlobalAnalysis
    /\ UNCHANGED <<clsVars, estVars, ftVars, mdVars, azVars, rfVars>>

\* The later button of the prompt, line 607.
DismissPrompt ==
    /\ showKeyUpdatePrompt
    /\ showKeyUpdatePrompt' = FALSE
    /\ UNCHANGED <<trendsLength, hasKey, showSettings, analyzingGlobal, globalAnalysis,
                   bigEvents, tokenUsage, analysisProgress, intervalActive, alerts, agRuns,
                   localStorage, clsVars, estVars, ftVars, mdVars, azVars, rfVars>>

\* The settings buttons of the page, lines 293 and 559.
OpenSettings ==
    /\ PageClickable
    /\ showSettings' = TRUE
    /\ UNCHANGED <<trendsLength, hasKey, showKeyUpdatePrompt, analyzingGlobal,
                   globalAnalysis, bigEvents, tokenUsage, analysisProgress,
                   intervalActive, alerts, agRuns, localStorage, clsVars, estVars, ftVars,
                   mdVars, azVars, rfVars>>

\* The close button of the settings dialog, line 633.
CloseSettings ==
    /\ showSettings
    /\ showSettings' = FALSE
    /\ UNCHANGED <<trendsLength, hasKey, showKeyUpdatePrompt, analyzingGlobal,
                   globalAnalysis, bigEvents, tokenUsage, analysisProgress,
                   intervalActive, alerts, agRuns, localStorage, clsVars, estVars, ftVars,
                   mdVars, azVars, rfVars>>

\* handleSaveKey, lines 111-116, with the text of the key input.
handleSaveKey ==
    /\ showSettings
    /\ \E apiKeyInput \in ApiKeyInputs :
        /\ localStorage' = setItem(localStorage, API_KEY_STORAGE_KEY, apiKeyInput)
        /\ hasKey' = (apiKeyInput # <<>>)
    /\ showSettings' = FALSE
    /\ showKeyUpdatePrompt' = TRUE
    /\ UNCHANGED <<trendsLength, analyzingGlobal, globalAnalysis, bigEvents, tokenUsage,
                   analysisProgress, intervalActive, alerts, agRuns, clsVars, estVars, ftVars,
                   mdVars, azVars, rfVars>>

\* The join of run r after one of its calls settled: Promise.all rejects
\* with the first rejection, and resolves when both calls have returned.
JoinAfter(r) ==
    IF r.join # "pending" THEN r.join
    ELSE IF \E x \in {r.g, r.e} : IsOutcome(x) /\ ~x.ok THEN "failed"
    ELSE IF IsOutcome(r.g) /\ IsOutcome(r.e) THEN "delay"
    ELSE "pending"

\* A call of run i settles with outcome: it is held while the join is
\* pending, and dropped when the join has rejected, by this outcome or
\* before it.
SettleCall(i, which, outcome) ==
    LET r == agRuns[i]
        settled == IF which = "g" THEN Run(outcome, r.e, r.join) ELSE Run(r.g, outcome, r.join)
        join == JoinAfter(settled)
        Kept(x) == IF join = "failed" /\ x # Pending THEN Discarded ELSE x
    IN  /\ agRuns' = [agRuns EXCEPT ![i] = Run(Kept(settled.g), Kept(settled.e), join)]
        /\ IF r.join = "pending" /\ join = "failed"
           THEN /\ RunCatch
                /\ UNCHANGED analysisProgress
           ELSE IF r.join = "pending" /\ join = "delay"
           THEN /\ analysisProgress' = Pct(100)
                /\ UNCHANGED <<analyzingGlobal, intervalActive, alerts>>
           ELSE UNCHANGED <<analyzingGlobal, intervalActive, alerts, analysisProgress>>
        /\ UNCHANGED <<trendsLength, hasKey, showSettings, showKeyUpdatePrompt,
                       globalAnalysis, bigEvents, tokenUsage, localStorage, clsVars,
                       estVars, ftVars, mdVars, azVars, rfVars>>

\* The response to the analyzeGlobalTrends call of a run arrives.
GlobalSettles ==
    \E i \in 1..Len(agRuns), resp \in AggregateResponses :
        /\ agRuns[i].g = Pending
        /\ SettleCall(i, "g", GlobalOutcomes[resp])

\* The response to the identifyBigEvents call of a run arrives.
EventsSettle ==
    \E i \in 1..Len(agRuns), resp \in AggregateResponses :
        /\ agRuns[i].e = Pending
        /\ SettleCall(i, "e", EventsOutcomes[resp])

\* The timeout callback of a run, lines 158-164, 600 ms after the join
\* resolved.  Reading events of a null record throws, and what follows in
\* the callback does not run.
ShowResults ==
    \E i \in 1..Len(agRuns) :
        LET r == agRuns[i]
        IN  /\ r.join = "delay"
            /\ globalAnalysis' = r.g.val.data
            /\ IF Nullish(r.e.val.data)
               THEN /\ agRuns' = [agRuns EXCEPT ![i] = Run(Discarded, Discarded, "threw")]
                    /\ UNCHANGED <<bigEvents, tokenUsage, analyzingGlobal, intervalActive>>
               ELSE /\ agRuns' = [agRuns EXCEPT ![i] = Run(Discarded, Discarded, "applied")]
                    /\ bigEvents' = IF Truthy(Get(r.e.val.data, "events"))
                                    THEN Get(r.e.val.data, "events") ELSE JArr(<<>>)
                    /\ tokenUsage' = TotalTokens(r.g.val.usage) + TotalTokens(r.e.val.usage)
                    /\ analyzingGlobal' = FALSE
                    /\ intervalActive' = FALSE
            /\ UNCHANGED <<trendsLength, hasKey, showSettings, showKeyUpdatePrompt,
                           analysisProgress, alerts, localStorage, clsVars, estVars, ftVars,
                           mdVars, azVars, rfVars>>

NextAggregate ==
    \/ Regenerate
    \/ Generate
    \/ AnalyzeFromPrompt
    \/ DismissPrompt
    \/ OpenSettings
    \/ CloseSettings
    \/ handleSaveKey
    \/ GlobalSettles
    \/ EventsSettle
    \/ ShowResults

SpecAggregate == InitAggregate /\ [][NextAggregate]_vars

-----------------------------------------------------------------------------
(* The progress of an aggregate run, App lines 118-132 *)

\* An updater that never lowers the progress.
ProgressUpdateHolds(prev) ==
    IF prev >= Pct(95) THEN prev
    ELSE Min(prev + (IF prev < Pct(30) THEN Pct(5) ELSE IF prev < Pct(60) THEN Pct(2) ELSE 1),
             Pct(95))

\* The updater of the interval callback, lines 123-130.
ProgressUpdate(prev) ==
    IF prev >= Pct(95) THEN Pct(95)
    ELSE Min(prev + (IF prev < Pct(30) THEN Pct(5) ELSE IF prev < Pct(60) THEN Pct(2) ELSE 1),
             Pct(95))

\* A tick of the 200 ms interval that startAnalysisProgress set, lines
\* 122-131, while it has not been cleared.
ProgressTick ==
    /\ intervalActive
    /\ analysisProgress' = ProgressUpdate(analysisProgress)
    /\ UNCHANGED <<trendsLength, hasKey, showSettings, showKeyUpdatePrompt,
                   analyzingGlobal, globalAnalysis, bigEvents, tokenUsage,
                   intervalActive, alerts, agRuns, localStorage, clsVars, estVars,
                   ftVars, mdVars, azVars, rfVars>>

\* App with trends loaded and a credential stored.
InitProgress ==
    /\ InitAggregate
    /\ trendsLength > 0
    /\ hasKey

\* The runs started from the page, with the ticks of their progress.
NextProgress ==
    \/ Generate
    \/ Regenerate
    \/ ProgressTick
    \/ GlobalSettles
    \/ EventsSettle
    \/ ShowResults

SpecProgress == InitProgress /\ [][NextProgress]_vars

-----------------------------------------------------------------------------
(* The refresh of the trends in App, lines 66-109 and 372-380 *)

\* At most MaxRefreshes calls of fetchTrends are made.
MaxRefreshes == 4

\* refreshing as the first render has it, line 21: the value the loadTrends
\* of the mount effect and of the timer callback close over, both effects
\* having no dependencies.
FirstRenderRefreshing == FALSE

RefreshCall(by, st) == [by |-> by, st |-> st]

InitRefresh ==
    /\ RfIdle
    /\ ClsIdle
    /\ EstIdle
    /\ localStorage = EmptyStorage
    /\ FtIdle
    /\ MdIdle
    /\ AzIdle
    /\ AgIdle

\* loadTrends, lines 95-99, up to the await, with the refreshing of its
\* closure: it returns when that is true, and calls fetchTrends otherwise.
loadTrends(seenRefreshing, showSkeleton, by) ==
    IF seenRefreshing
    THEN UNCHANGED rfVars
    ELSE /\ Len(rfCalls) < MaxRefreshes
         /\ refreshing' = TRUE
         /\ loadingTrends' = (showSkeleton \/ loadingTrends)
         /\ rfCalls' = Append(rfCalls, RefreshCall(by, "pending"))
         /\ UNCHANGED trendsFrom

\* The mount effect, line 69.
MountLoad ==
    /\ rfCalls = <<>>
    /\ loadTrends(FirstRenderRefreshing, TRUE, "mount")
    /\ UNCHANGED <<clsVars, estVars, localStorage, ftVars, mdVars, azVars, agVars>>

\* A tick of the 10-minute timer, lines 73-75.
TimerTick ==
    /\ rfCalls # <<>>
    /\ loadTrends(FirstRenderRefreshing, FALSE, "timer")
    /\ UNCHANGED <<clsVars, estVars, localStorage, ftVars, mdVars, azVars, agVars>>

\* A click on the refresh button, lines 372-374, which is disabled while
\* refreshing and carries the loadTrends of the current render.
ManualRefresh ==
    /\ rfCalls # <<>>
    /\ ~refreshing
    /\ loadTrends(refreshing, FALSE, "button")
    /\ UNCHANGED <<clsVars, estVars, localStorage, ftVars, mdVars, azVars, agVars>>

\* A fetchTrends call returns its list: loadTrends from the await on, lines
\* 100-108.
RefreshSettles ==
    \E i \in 1..Len(rfCalls) :
        /\ rfCalls[i].st = "pending"
        /\ rfCalls' = [rfCalls EXCEPT ![i].st = "settled"]
        /\ trendsFrom' = i
        /\ loadingTrends' = FALSE
        /\ refreshing' = FALSE
        /\ UNCHANGED <<clsVars, estVars, localStorage, ftVars, mdVars, azVars, agVars>>

NextRefresh ==
    \/ MountLoad
    \/ TimerTick
    \/ ManualRefresh
    \/ RefreshSettles

SpecRefresh == InitRefresh /\ [][NextRefresh]_vars

-----------------------------------------------------------------------------
(* Claims about the trend source chain *)

Range(seq) == {seq[i] : i \in 1..Len(seq)}

TierOrder == <<"PRIMARY", "BACKUP", "GENERATIVE">>

IsPrefix(p, q) == Len(p) <= Len(q) /\ \A i \in 1..Len(p) : p[i] = q[i]

\* C1: within one invocation the external calls are issued in the order
\* PRIMARY, BACKUP, GENERATIVE, none twice and never two in flight; the
\* backup is called only after the primary failed, the generative fallback
\* only after both sources failed, the placeholder list is returned only
\* after all three failed, and a successful primary is the only call made.
C1_TiersInOrder ==
    /\ ftInFlight <= 1
    /\ IsPrefix(ftCalls, TierOrder)
    /\ "BACKUP" \in Range(ftCalls) => "PRIMARY" \in ftFailed
    /\ "GENERATIVE" \in Range(ftCalls) => {"PRIMARY", "BACKUP"} \subseteq ftFailed
    /\ ftPath = "PLACEHOLDER" => ftFailed = {"PRIMARY", "BACKUP", "GENERATIVE"}
    /\ ftPath = "PRIMARY" => ftCalls = <<"PRIMARY">> /\ ftFailed = {}
    /\ ftPath = "BACKUP" => ftCalls = <<"PRIMARY", "BACKUP">>

\* All three tiers were called and the generated list was returned.
C1_Witness ==
    /\ ftPc = "done"
    /\ ftCalls = TierOrder
    /\ ftPath = "GENERATIVE"
    /\ ftInFlight = 0

\* C2: an invocation never rejects, what it returns is a list, and once
\* started it returns, whatever the three tiers answer, provided every call
\* settles.
C2_AlwaysReturnsList ==
    /\ [](ftPc # "rejected")
    /\ [](ftPc = "done" => ftResult.t = "arr")
    /\ (ftPc # "idle") ~> (ftPc = "done")

\* The sources failed, the completion call failed in transport, and the
\* invocation returned.
C2_Witness ==
    /\ ftPc = "done"
    /\ ftCalls = TierOrder
    /\ ftResponse.net = "error"
    /\ ftResult.t = "arr"

\* C3: the list returned has at most 51 items on every path.
C3_AtMost51 ==
    ftPc = "done" => Len(ftResult.a) <= SliceLimit

\* The word list of the primary response, when its body has one.
PrimaryWordList == Get(Get(ftResponse.data, "data"), "word_list")

\* A raw entry with a non-empty text word, a hot value >= 0 and a numeric
\* position or none.
WellFormedEntry(e) ==
    /\ e.t = "obj"
    /\ Get(e, "word").t = "str" /\ Get(e, "word").s # <<>>
    /\ Get(e, "hot_value").t = "num" /\ Get(e, "hot_value").n >= 0
    /\ Get(e, "position").t \in {"num", "undefined"}

\* The response in ftResponse is an OK response whose body holds, where the
\* primary tier looks for it, a list of N >= 1 well-formed entries.
WellFormedPrimaryResponse ==
    /\ ftResponse.net = "ok" /\ ftResponse.ok /\ ftResponse.json
    /\ PrimaryWordList.t = "arr"
    /\ Len(PrimaryWordList.a) >= 1
    /\ \A i \in 1..Len(PrimaryWordList.a) : WellFormedEntry(PrimaryWordList.a[i])

CategoryValues == {JStr(c) : c \in CategorySet}

\* C4: a primary response with a well-formed list of N >= 1 entries is never
\* followed by the backup call, and fetchTrends then returns min(N, 51)
\* items, the i-th carrying word and hot value of the i-th entry, its
\* position as rank when that is positive and i otherwise, a category of
\* CATEGORIES and a heat rise >= 0.
C4_PrimaryWellFormed ==
    /\ ftPc = "backupPending" => ~WellFormedPrimaryResponse
    /\ (ftPc = "done" /\ ftPath = "PRIMARY" /\ WellFormedPrimaryResponse) =>
        LET raw == PrimaryWordList.a
            m == Min(Len(raw), 51)
        IN  /\ ftResult.t = "arr"
            /\ Len(ftResult.a) = m
            /\ \A i \in 1..m :
                /\ Get(ftResult.a[i], "title") = Get(raw[i], "word")
                /\ Get(ftResult.a[i], "hotValue") = Get(raw[i], "hot_value")
                /\ Get(ftResult.a[i], "rank") =
                        IF PositivePosition(Get(raw[i], "position"))
                        THEN Get(raw[i], "position") ELSE JNum(i)
                /\ Get(ftResult.a[i], "category") \in CategoryValues
                /\ Get(ftResult.a[i], "heatRise").t = "num"
                /\ Get(ftResult.a[i], "heatRise").n >= 0

\* The primary answered with 52 well-formed entries and 51 items were
\* returned.
C4_Witness ==
    /\ ftPc = "done"
    /\ ftPath = "PRIMARY"
    /\ WellFormedPrimaryResponse
    /\ Len(PrimaryWordList.a) = 52
    /\ Len(ftResult.a) = 51

KeyMissing == ~Truthy(getApiKey(localStorage))

\* The completion in ftResponse is a transport failure, or its content is
\* not JSON.
CompletionFailed ==
    \/ ftResponse.net = "error"
    \/ ~ftResponse.ok
    \/ ~ftResponse.json
    \/ LET c == callDeepSeekResume(ftResponse)
       IN  c.ok /\ ~JSON_parseValue(c.val.content).ok

\* C5: when primary and backup have failed and the generative fallback
\* fails, by a missing credential, a transport failure or content that is
\* not JSON, fetchTrends returns the two-item placeholder list: rank 1 the
\* network-failure notice, rank 2 the missing-credential notice.
C5_PlaceholderList ==
    ( /\ ftPc \in {"done", "rejected"}
      /\ {"PRIMARY", "BACKUP"} \subseteq ftFailed
      /\ KeyMissing \/ (ftCalls = TierOrder /\ CompletionFailed) )
    =>  /\ ftPc = "done"
        /\ ftResult.t = "arr"
        /\ Len(ftResult.a) = 2
        /\ Get(ftResult.a[1], "rank") = JNum(1)
        /\ Get(ftResult.a[1], "title") = JStr(NetworkFailureTitle)
        /\ Get(ftResult.a[2], "rank") = JNum(2)
        /\ Get(ftResult.a[2], "title") = JStr(MissingCredentialTitle)
        /\ ftResult = PlaceholderTrends

\* Both sources failed, no credential is stored, and the placeholder list
\* was returned without a completion call.
C5_Witness ==
    /\ ftPc = "done"
    /\ KeyMissing
    /\ ftCalls = <<"PRIMARY", "BACKUP">>
    /\ ftResult = PlaceholderTrends

\* C6: every item of every list returned, on the primary, backup,
\* generative and placeholder paths, has a category of CATEGORIES.
C6_CategoriesInSet ==
    ftPc = "done" =>
        \A i \in 1..Len(ftResult.a) : Get(ftResult.a[i], "category") \in CategoryValues

\* The word list of the response of the tier that returned.
SourceWordList ==
    IF ftPath = "PRIMARY" THEN PrimaryWordList ELSE Get(ftResponse.data, "word_list")

\* A source tier has returned its list.
SourceReturned == ftPc = "done" /\ ftPath \in {"PRIMARY", "BACKUP"}

\* C23: in the list a source tier returns, the item of the raw entry at
\* 0-based index i has the position of the entry as rank when that is
\* present and positive, and i+1 when it is absent, zero or negative; its
\* category is the classification of its word, whatever category the
\* entry carries.
C23_RankAndCategory ==
    SourceReturned =>
        \A k \in 1..Len(ftResult.a) :
            LET raw == SourceWordList.a[k]
                position == Get(raw, "position")
                rank == Get(ftResult.a[k], "rank")
            IN  /\ (position.t = "num" /\ position.n > 0) => rank = position
                /\ (position = Undefined \/ (position.t = "num" /\ position.n <= 0)) =>
                        rank = JNum((k - 1) + 1)
                /\ Get(ftResult.a[k], "category") =
                        JStr(determineCategory(Get(raw, "word").s))

\* A source tier has returned items for an entry with a source category
\* that its word does not classify to, and for entries with the position
\* absent, zero and negative.
C23_Witness ==
    /\ SourceReturned
    /\ \E k \in 1..Len(ftResult.a) :
            LET raw == SourceWordList.a[k]
            IN  /\ Get(raw, "category").t = "str"
                /\ Get(raw, "category") # Get(ftResult.a[k], "category")
                /\ Get(ftResult.a[k], "rank") = Get(raw, "position")
    /\ \E k \in 1..Len(ftResult.a) :
            /\ Get(SourceWordList.a[k], "position") \in {Undefined, JNum(0), JNum(-2)}
            /\ Get(ftResult.a[k], "rank") = JNum(k)

\* C24: when the primary and the backup source have both failed, the list
\* fetchTrends returns is not empty: it holds the items of the generative
\* fallback, or it is the placeholder list.
C24_NeverEmpty ==
    (ftPc = "done" /\ {"PRIMARY", "BACKUP"} \subseteq ftFailed) =>
        /\ ftResult.t = "arr"
        /\ Len(ftResult.a) >= 1

\* A raw entry that is an object whose word, hot_value and position are
\* each as in a well-formed entry or missing.
EntryWithGaps(e) ==
    /\ e.t = "obj"
    /\ Get(e, "word").t \in {"str", "undefined"}
    /\ Get(e, "hot_value").t \in {"num", "undefined"}
    /\ Get(e, "position").t \in {"num", "undefined"}

\* The response in ftResponse passes the shape check of the primary tier
\* with a list of such entries.
PrimaryListWithGaps ==
    /\ ftResponse.net = "ok" /\ ftResponse.ok /\ ftResponse.json
    /\ PrimaryWordList.t = "arr"
    /\ \A i \in 1..Len(PrimaryWordList.a) : EntryWithGaps(PrimaryWordList.a[i])

\* C25: a primary response that passes the shape check with entries that
\* lack word, hot_value or position does not escalate to the backup tier:
\* the primary tier returns its list, with hot value 0 and the 1-based
\* index as rank where the fields are missing.
C25_EntryNeverEscalates ==
    /\ ftPc = "backupPending" => ~PrimaryListWithGaps
    /\ (ftPc = "done" /\ ftPath = "PRIMARY" /\ PrimaryListWithGaps) =>
            \A k \in 1..Len(ftResult.a) :
                LET raw == PrimaryWordList.a[k]
                IN  /\ Get(raw, "hot_value") = Undefined =>
                            Get(ftResult.a[k], "hotValue") = JNum(0)
                    /\ Get(raw, "position") = Undefined =>
                            Get(ftResult.a[k], "rank") = JNum(k)

-----------------------------------------------------------------------------
(* Claims about the classifier *)

KeywordMapIndex == 1..Len(KEYWORD_MAP)

\* The score of every category on the title under classification.
Scores == [i \in KeywordMapIndex |-> Score(title, KEYWORD_MAP[i][2])]

\* Category i is the only one with a keyword in the title.
OnlyScorer(sc, i) == sc[i] > 0 /\ \A j \in KeywordMapIndex : j # i => sc[j] = 0

\* C7: determineCategory returns the category whose keyword score is highest,
\* the first one in table order among those tied at the highest score, and
\* the default SheHuiMinSheng when every score is zero (the empty title
\* included); it always returns a category.
C7_HighestScoreFirstTie ==
    category # NoCategory =>
        LET sc == Scores
        IN  /\ category \in CategorySet
            /\ \/ /\ \A i \in KeywordMapIndex : sc[i] = 0
                  /\ category = SheHuiMinSheng
               \/ \E i \in KeywordMapIndex :
                    /\ category = KEYWORD_MAP[i][1]
                    /\ sc[i] > 0
                    /\ \A j \in KeywordMapIndex : sc[j] <= sc[i]
                    /\ \A j \in KeywordMapIndex : j < i => sc[j] < sc[i]

\* A classified title on which a later category ties with the winner.
C7_Witness ==
    /\ category # NoCategory
    /\ LET sc == Scores
       IN  \E i, j \in KeywordMapIndex :
            /\ i < j
            /\ sc[i] = sc[j]
            /\ sc[i] > 0
            /\ \A k \in KeywordMapIndex : sc[k] <= sc[i]
            /\ category = KEYWORD_MAP[i][1]

-----------------------------------------------------------------------------
(* Claims about the estimator *)

\* The call returned floor(totalHotValue * ratio) for the ratio drawn, and the
\* ratio lies in [0.01, 0.08).
FloorOfProduct ==
    /\ PercentageDen <= 100 * Percentage(random)
    /\ 100 * Percentage(random) < 8 * PercentageDen
    /\ heatRise * PercentageDen <= totalHotValue * Percentage(random)
    /\ totalHotValue * Percentage(random) < (heatRise + 1) * PercentageDen

\* ceil(0.08 * hot)
CeilEightPercent(hot) == (8 * hot + 99) \div 100

\* C9 as stated: for every hotValue >= 0, 0 included, the estimate is the
\* floor of hotValue times the ratio and lies in [0, ceil(0.08*hotValue)).
C9_Original ==
    heatRise # -1 =>
        /\ FloorOfProduct
        /\ 0 <= heatRise
        /\ heatRise < CeilEightPercent(totalHotValue)

\* C9 amended: the estimate is the floor of hotValue times a ratio in
\* [0.01, 0.08); it lies in [0, ceil(0.08*hotValue)) when hotValue > 0 and
\* is 0 when hotValue = 0 (where that interval is empty).
C9_RiseInRange ==
    heatRise # -1 =>
        /\ FloorOfProduct
        /\ 0 <= heatRise
        /\ totalHotValue > 0 => heatRise < CeilEightPercent(totalHotValue)
        /\ totalHotValue = 0 => heatRise = 0

\* The largest draw on a hot value of 100: the estimate is 7, one below the
\* bound 8.
C9_Witness ==
    /\ totalHotValue = 100
    /\ heatRise = CeilEightPercent(100) - 1

-----------------------------------------------------------------------------
(* The analysis cache *)

\* What a lookup of trendTitle's entry yields: getItem and JSON.parse.
CacheGet(trendTitle) == JSON_parseValue(getItem(localStorage, CacheKey(trendTitle)))

\* C10: while the latest write to the cache entry of a title is the put of
\* an analysis A, whether it was the first put or overwrote an earlier one,
\* a lookup of the entry parses to a value equal to A; and a modal mounted
\* for that title shows A and issues no call.
C10_CacheRoundTrip ==
    /\ [](\A t \in ModalTitles :
            lastPut[t] # NoPut =>
                /\ Truthy(getItem(localStorage, CacheKey(t)))
                /\ CacheGet(t) = Return(lastPut[t].val))
    /\ [][\A t \in ModalTitles :
            (selectedTrend = NoTrend /\ selectedTrend' = t /\ lastPut[t] # NoPut) =>
                /\ analysis' = lastPut[t].val
                /\ mdCacheHit'
                /\ mdCalls' = mdCalls
                /\ localStorage' = localStorage]_vars

\* A second put for the same title overwrote the first with another
\* analysis, and the modal mounted afterwards shows the second.
C10_Witness ==
    /\ selectedTrend # NoTrend
    /\ mdCacheHit
    /\ lastPut[selectedTrend] # NoPut
    /\ lastPut[selectedTrend].overwrote
    /\ analysis = lastPut[selectedTrend].val
    /\ analysis # FallbackAnalysis
    /\ analysis.t = "obj"

\* The step in which the user selects t and its modal mounts.
Selects(t) == selectedTrend = NoTrend /\ selectedTrend' = t

\* The entry of t is present and JSON.parse of it throws.
Undeserializable(t) ==
    /\ CacheKey(t) \in DOMAIN localStorage
    /\ ~CacheGet(t).ok

\* What a selection of t without a usable entry goes on to: the analysis
\* call is issued, or without a credential the configure-credential state
\* is shown.
ContinuesAsMiss(t) ==
    /\ ~mdCacheHit'
    /\ analysis' = JNull
    /\ IF Truthy(getApiKey(localStorage))
       THEN /\ mdCalls' = mdCalls \cup {[mount |-> mdMount', title |-> t]}
            /\ loading'
            /\ error' = JNull
       ELSE /\ mdCalls' = mdCalls
            /\ ~loading'
            /\ error' = MISSING_KEY

\* C11: when t is selected while its stored entry cannot be deserialized,
\* no parse error surfaces, the entry is gone from storage afterwards, and
\* the selection continues as on a cache miss.
C11_CorruptEntryDeleted ==
    [][\A t \in ModalTitles :
        (Selects(t) /\ Undeserializable(t)) =>
            /\ CacheKey(t) \notin DOMAIN localStorage'
            /\ ContinuesAsMiss(t)]_vars

\* The entry of t is present and JSON.parse of it returns.
Parseable(t) ==
    /\ CacheKey(t) \in DOMAIN localStorage
    /\ JSON_parse(localStorage[CacheKey(t)]).ok

\* The calls in flight that the mounted modal issued.
CallsOfMounted == {c \in mdCalls : c.mount = mdMount}

\* C12: when t is selected while a parseable entry is stored for it, that
\* selection issues no analysis call, the analysis shown is the parsed
\* entry, loading is over, and storage is as it was; a modal served from
\* the cache never has a call of its own in flight.
C12_CacheHitNoCall ==
    /\ [][\A t \in ModalTitles :
            (Selects(t) /\ Parseable(t)) =>
                /\ mdCalls' = mdCalls
                /\ analysis' = JSON_parse(localStorage[CacheKey(t)]).val
                /\ ~loading'
                /\ error' = JNull
                /\ localStorage' = localStorage]_vars
    /\ [](mdCacheHit => CallsOfMounted = {} /\ ~loading)

\* The modal shows the stored entry of its trend while the call of an
\* earlier modal, for another trend, is still in flight.
C12_Witness ==
    /\ selectedTrend # NoTrend
    /\ mdCacheHit
    /\ Parseable(selectedTrend)
    /\ analysis = JSON_parse(localStorage[CacheKey(selectedTrend)]).val
    /\ ~loading
    /\ mdCalls # {}
    /\ \A c \in mdCalls : c.title # selectedTrend

\* The records analyzeTrendWithAI returns for the responses of the model.
AnalysisRecords ==
    {r.val.data : r \in {x \in {analyzeTrendWithAIResume(resp) :
                                    resp \in AnalysisCompletions} : x.ok}}

\* The step in which call c settles.
SettlesCall(c) == c \in mdCalls /\ c \notin mdCalls'

\* C13: when t is selected with a credential configured and no parseable
\* entry stored for it, that selection issues exactly one analysis call and
\* no later step issues another for it; when the call settles by returning
\* a record d, d is written under analysis_cache_<t>, and a modal still
\* mounted shows d and stops loading, as it also does when the call
\* rejects.
C13_MissOneCallThenStored ==
    /\ [][\A t \in ModalTitles :
            (Selects(t) /\ ~Parseable(t) /\ Truthy(getApiKey(localStorage))) =>
                /\ mdCalls' = mdCalls \cup {[mount |-> mdMount', title |-> t]}
                /\ [mount |-> mdMount', title |-> t] \notin mdCalls
                /\ loading']_vars
    /\ [][selectedTrend' = selectedTrend => mdCalls' \subseteq mdCalls]_vars
    /\ [][\A c \in mdCalls :
            SettlesCall(c) =>
                LET mounted == selectedTrend # NoTrend /\ mdMount = c.mount
                IN  /\ mounted => ~loading'
                    /\ \/ /\ localStorage' = localStorage
                          /\ mounted => error' # JNull
                       \/ \E d \in AnalysisRecords :
                            /\ localStorage' =
                                   [k \in DOMAIN localStorage
                                            \cup {<<"analysis_cache_">> \o c.title} |->
                                       IF k = <<"analysis_cache_">> \o c.title
                                       THEN JSON_stringify(d) ELSE localStorage[k]]
                            /\ mounted => analysis' = d /\ error' = JNull]_vars

\* The call issued for the mounted modal has returned a record: it is
\* shown, it is stored under the key of the trend, and loading is over.
C13_Witness ==
    /\ selectedTrend # NoTrend
    /\ ~mdCacheHit
    /\ CallsOfMounted = {}
    /\ ~loading
    /\ error = JNull
    /\ analysis \in AnalysisRecords
    /\ analysis.t = "obj"
    /\ <<"analysis_cache_">> \o selectedTrend \in DOMAIN localStorage
    /\ localStorage[<<"analysis_cache_">> \o selectedTrend] = JSON_stringify(analysis)

\* C20: at no time are two analysis calls for the same title in flight.
C20_OneCallPerTitle ==
    \A c, d \in mdCalls : c.title = d.title => c = d

\* C21: the result of a call whose analysis view has been closed is
\* discarded when it arrives: it is not displayed and it changes neither
\* the state of the view nor the storage.
C21_LateResultDiscarded ==
    [][\A c \in mdCalls :
        (SettlesCall(c) /\ ~Mounted(c)) =>
            /\ analysis' = analysis
            /\ loading' = loading
            /\ error' = error
            /\ localStorage' = localStorage]_vars

\* The entry of t holds the fallback record.
FallbackCached(t) ==
    /\ CacheKey(t) \in DOMAIN localStorage
    /\ localStorage[CacheKey(t)] = JSON_stringify(FallbackAnalysis)

\* C27: when the call for t returns the fallback record, the record is
\* stored under the key of t; from then on no step of the application
\* replaces the entry, and every selection of t that finds it is served
\* the fallback record without a call.
C27_FallbackSticks ==
    [][/\ \A c \in mdCalls :
            (SettlesCall(c) /\ Mounted(c) /\ analysis' = FallbackAnalysis) =>
                FallbackCached(c.title)'
       /\ \A t \in ModalTitles :
            /\ (FallbackCached(t) /\ lastPut'[t] # NoPut) => FallbackCached(t)'
            /\ (Selects(t) /\ FallbackCached(t)) =>
                    /\ mdCalls' = mdCalls
                    /\ analysis' = FallbackAnalysis
                    /\ ~loading'
                    /\ localStorage' = localStorage]_vars

\* The entry of t in storage st.
CacheEntry(st, t) ==
    IF CacheKey(t) \in DOMAIN st
    THEN [present |-> TRUE, text |-> st[CacheKey(t)]]
    ELSE [present |-> FALSE, text |-> <<>>]

\* C28: a record comes to be stored under analysis_cache_<t> only in the
\* step in which a call made for t returns, and it is a record that
\* analyzeTrendWithAI returns; the return of a call for another title
\* leaves the entry of t as it was.
C28_EntryFromOwnCall ==
    [][\A t \in ModalTitles :
        /\ ( /\ CacheEntry(localStorage', t) # CacheEntry(localStorage, t)
             /\ CacheEntry(localStorage', t).present
             /\ JSON_parse(CacheEntry(localStorage', t).text).ok )
            => \E c \in mdCalls :
                    /\ c.title = t
                    /\ SettlesCall(c)
                    /\ \E d \in AnalysisRecords :
                            CacheEntry(localStorage', t).text = JSON_stringify(d)
        /\ (\E c \in mdCalls : SettlesCall(c) /\ c.title # t) =>
                CacheEntry(localStorage', t) = CacheEntry(localStorage, t)]_vars

\* Calls for both titles have returned different records, and the title
\* selected last is shown: each entry holds the record of its own call.
C28_Witness ==
    /\ mdCalls = {}
    /\ mdMount >= 2
    /\ selectedTrend # NoTrend
    /\ \A t \in ModalTitles :
            /\ lastPut[t] # NoPut
            /\ CacheEntry(localStorage, t).text = JSON_stringify(lastPut[t].val)
    /\ \E t \in ModalTitles : lastPut[t].val # analysis /\ t # selectedTrend
    /\ analysis = lastPut[selectedTrend].val

-----------------------------------------------------------------------------
(* Claims about the analysis operations *)

CredentialConfigured == Truthy(getApiKey(localStorage))

\* The external call fails on azResponse: in transport, by a status that is
\* not OK, or by a body or content that does not parse.
AzTransportError == azResponse.net = "error"
AzNotOk == azResponse.net = "ok" /\ ~azResponse.ok
AzUnparseable ==
    /\ azResponse.net = "ok" /\ azResponse.ok
    /\ LET c == callDeepSeekResume(azResponse)
       IN  ~c.ok \/ ~JSON_parseValue(c.val.content).ok

AzCallFailed == AzTransportError \/ AzNotOk \/ AzUnparseable

AspectLabels(record) ==
    {Get(Get(record, k), "label") : k \in {"sentiment", "domain", "contentForm", "lifecycle"}}

\* C14: analyzeTrendWithAI rejects with MISSING_API_KEY when no credential
\* is configured; with a credential, when the external call fails it does
\* not reject and returns the fallback record, with viralityScore 0 and the
\* four labels 未知.
C14_ItemErrorPolicy ==
    azItem # NoOutcome =>
        /\ ~CredentialConfigured => azItem = Throw(MISSING_API_KEY)
        /\ (CredentialConfigured /\ AzCallFailed) =>
                /\ azItem.ok
                /\ azItem.val.data = FallbackAnalysis
                /\ Get(azItem.val.data, "viralityScore") = JNum(0)
                /\ AspectLabels(azItem.val.data) = {JStr(Unknown)}

\* C15: analyzeGlobalTrends and identifyBigEvents both reject with
\* MISSING_API_KEY when no credential is configured; with a credential,
\* when the external call fails on the same response, analyzeGlobalTrends
\* rejects with the generic "Analysis failed" and identifyBigEvents returns
\* a record with an empty events list.
C15_AggregateErrorPolicies ==
    (azGlobal # NoOutcome /\ azEvents # NoOutcome) =>
        /\ ~CredentialConfigured =>
                /\ azGlobal = Throw(MISSING_API_KEY)
                /\ azEvents = Throw(MISSING_API_KEY)
        /\ (CredentialConfigured /\ AzCallFailed) =>
                /\ azGlobal = Throw(AnalysisFailed)
                /\ azEvents.ok
                /\ Get(azEvents.val.data, "events") = JArr(<<>>)

-----------------------------------------------------------------------------
(* Claims about the aggregate run *)

\* Run i leaves the state st of its join in this step.
Leaves(i, st) ==
    /\ i \in 1..Len(agRuns)
    /\ agRuns[i].join = st
    /\ agRuns'[i].join # st

\* Run i starts in this step.
Starts(i) == Len(agRuns) = i - 1 /\ Len(agRuns') = i

\* The join of run i rejects in this step: at the start without a
\* credential, or when one of its calls rejects.
Rejects(i) ==
    /\ i \in 1..Len(agRuns')
    /\ agRuns'[i].join = "failed"
    /\ Starts(i) \/ Leaves(i, "pending")

\* C16: when both calls of a run have succeeded, the token usage recorded
\* by the run is the sum of their total_tokens, a call without usage
\* counting as 0.
C16_TokenUsageIsSum ==
    [][\A i \in 1..MaxRuns :
        Leaves(i, "delay") =>
            tokenUsage' = TotalTokens(agRuns[i].g.val.usage)
                            + TotalTokens(agRuns[i].e.val.usage)]_vars

\* C17: when a call of a run rejects, the run fails: the failure notice is
\* shown, analyzingGlobal is false after the step, and the step applies no
\* result: globalAnalysis,
\* bigEvents and tokenUsage are as the start of the run left them, which is
\* null and empty when no other run has shown results.
C17_FailureAppliesNothing ==
    [][\A i \in 1..MaxRuns :
        Rejects(i) =>
            /\ alerts' = alerts + 1
            /\ analyzingGlobal' = FALSE
            /\ tokenUsage' = tokenUsage
            /\ ~Starts(i) => globalAnalysis' = globalAnalysis /\ bigEvents' = bigEvents
            /\ (\A j \in 1..Len(agRuns') : j # i => agRuns'[j].join = "failed") =>
                    globalAnalysis' = JNull /\ bigEvents' = JArr(<<>>)]_vars

\* A run has failed on the rejection of one call after the other call had
\* returned, and with a token usage on record from an earlier run.
C17_Witness ==
    /\ Len(agRuns) = 2
    /\ agRuns[1].join = "applied"
    /\ agRuns[2] = Run(Discarded, Discarded, "failed")
    /\ trendsLength > 0 /\ Truthy(getApiKey(localStorage))
    /\ tokenUsage = 25
    /\ globalAnalysis = JNull
    /\ ~analyzingGlobal

\* C22: a run that fails for the missing credential does not show the
\* generic failure notice, is not started again by the step, and leaves the
\* storage as it was.
C22_MissingCredentialDedicated ==
    [][\A i \in 1..MaxRuns :
        (Starts(i) /\ ~Truthy(getApiKey(localStorage))) =>
            /\ alerts' = alerts
            /\ Len(agRuns') = i
            /\ localStorage' = localStorage]_vars

\* C26: during a run analysisProgress never decreases: apart from the reset
\* at the start of a run no step lowers it, it is at most 95 while the
\* calls of the run are pending, and it is 100 from the resolution of the
\* join until the results are shown.
C26_ProgressNeverDecreases ==
    [][/\ (\A i \in 1..MaxRuns : ~Starts(i)) => analysisProgress' >= analysisProgress
       /\ \A i \in 1..Len(agRuns') :
            /\ agRuns'[i].join = "pending" => analysisProgress' <= Pct(95)
            /\ agRuns'[i].join = "delay" => analysisProgress' = Pct(100)]_vars

\* The runs with a call pending, or with their results still to be shown.
RunsInFlight ==
    {i \in 1..Len(agRuns) :
        \/ Pending \in {agRuns[i].g, agRuns[i].e}
        \/ agRuns[i].join \in {"pending", "delay"}}

\* C30: at most one run is in flight at any time, and analyzingGlobal is
\* true whenever a call of a run is pending.
C30_OneRunInFlight ==
    /\ Cardinality(RunsInFlight) <= 1
    /\ (\E i \in 1..Len(agRuns) : Pending \in {agRuns[i].g, agRuns[i].e}) =>
            analyzingGlobal

\* C18: the join of a run waits for both calls: while a call of the run is
\* pending the run is not finished, and the only run is still analysing
\* with nothing shown.
C18_JoinWaitsForBoth ==
    \A i \in 1..Len(agRuns) :
        Pending \in {agRuns[i].g, agRuns[i].e} =>
            /\ agRuns[i].join = "pending"
            /\ Len(agRuns) = 1 => analyzingGlobal /\ globalAnalysis = JNull

-----------------------------------------------------------------------------
(* Claims about the refresh *)

\* The fetchTrends calls that have not settled.
RefreshesInFlight == {i \in 1..Len(rfCalls) : rfCalls[i].st = "pending"}

\* C19: at most one refresh is in flight at any time.
C19_OneRefreshInFlight == Cardinality(RefreshesInFlight) <= 1

\* C29: once every refresh started has settled the list shown is that of
\* the call started last, and refreshing is false only when no refresh is
\* in flight.
C29_LatestRefreshShown ==
    /\ (rfCalls # <<>> /\ RefreshesInFlight = {}) => trendsFrom = Len(rfCalls)
    /\ ~refreshing => RefreshesInFlight = {}

====
